---- MODULE Spec2Model ----
(***************************************************************************)
(* Skill-tree allocation engine of the stats service                       *)
(* (services/stats/app/services/tree_engine.py): node/edge cache,          *)
(* can_allocate, _is_reachable, allocate_nodes and respec, over the rows   *)
(* of characters, character_stats and character_nodes.                     *)
(***************************************************************************)
EXTENDS Integers, Sequences, FiniteSets, TLC

\* ------------------------------------------------------------------------
\* Bounds of the model
\* ------------------------------------------------------------------------
MaxPoints == 4
MaxTokens == 1
MaxBatch == 2
MaxXp == 360
MaxJumpLevel == 12
MaxLog == 2
MaxStatXp == 45000
MaxTotalXp == 405000

\* ------------------------------------------------------------------------
\* Configuration rows: stat_nodes and stat_node_edges
\* ------------------------------------------------------------------------
CharId == "char"
CharacterIds == {CharId, "nobody"}

CORE_STATS == {"STR", "INT", "WIS", "STA", "CHA", "LCK"}

\* Effect values are floats in the source; they are kept here as a number of
\* halves (3 is 1.5), and an absent value as the empty tuple.
Effect(t, s, v) == [type |-> t, stat |-> s, value |-> v]

\* Rows of stat_nodes.  Node 5 is inactive, node 2 has required_points 0.
StatNodeDB ==
  { [id |-> 1, code |-> "o",  node_type |-> "origin",  required_points |-> 1,
     is_active |-> TRUE,
     effects |-> << Effect("stat_bonus", "STR", <<2>>) >>],
    [id |-> 2, code |-> "o2", node_type |-> "origin",  required_points |-> 0,
     is_active |-> TRUE,
     effects |-> << >>],
    [id |-> 3, code |-> "a",  node_type |-> "minor",   required_points |-> 1,
     is_active |-> TRUE,
     effects |-> << Effect("stat_bonus", "STR", <<3>>),
                    Effect("stat_percent", "INT", <<4>>) >>],
    [id |-> 4, code |-> "b",  node_type |-> "notable", required_points |-> 2,
     is_active |-> TRUE,
     effects |-> << Effect("stat_bonus", "INT", <<4>>),
                    Effect("stat_bonus", "XXX", <<2>>),
                    Effect("stat_bonus", "WIS", << >>),
                    Effect("stat_bonus", "", <<2>>) >>],
    [id |-> 5, code |-> "x",  node_type |-> "minor",   required_points |-> 1,
     is_active |-> FALSE,
     effects |-> << Effect("stat_bonus", "CHA", <<2>>) >>] }

NodeIds == { n.id : n \in StatNodeDB }
NodeById(i) == CHOOSE n \in StatNodeDB : n.id = i

\* Codes a caller may send: the five rows above and one that names no row.
ActiveCodes == { n.code : n \in { m \in StatNodeDB : m.is_active } }
Codes == { n.code : n \in StatNodeDB } \cup {"zz"}

Edge(f, t, b) == [from_node_id |-> f, to_node_id |-> t, bidirectional |-> b]

\* The edge tables the model is run against (one is chosen at start-up):
\* a chain o-a-b with the inactive x between o and o2; one-way edges that
\* leave b floating; a chain o2-b-a with a one-way edge a->o; a star.
EdgeConfigs ==
  { { Edge(1, 3, TRUE), Edge(3, 4, TRUE), Edge(1, 5, TRUE), Edge(5, 2, TRUE) },
    { Edge(1, 3, FALSE), Edge(4, 3, FALSE) },
    { Edge(3, 1, FALSE), Edge(3, 4, TRUE), Edge(2, 4, TRUE) },
    { Edge(1, 3, TRUE), Edge(1, 4, TRUE), Edge(4, 2, TRUE) } }

\* ------------------------------------------------------------------------
\* State: the rows of one character, the edge table, the last response
\* ------------------------------------------------------------------------
VARIABLES
  edges,            \* rows of stat_node_edges
  character,        \* the characters row of CharId
  stats,            \* character_stats rows: stat_code -> row
  character_nodes,  \* character_nodes rows of CharId (set of node ids)
  spent,            \* points spent since character_nodes was last empty
  resp,             \* response of the last request
  req,              \* requests in flight: request -> its session and position
  lock,             \* the request whose transaction updated the characters
                    \* row and has not ended (0: none)
  start,            \* stat_points and character_nodes before the requests
  activity_log,     \* rows of activity_log, oldest first
  call              \* the last call of a function of ProgressionService,
                    \* of _calculate_xp or of calculate_derived_stats

vars == <<edges, character, stats, character_nodes, spent, resp, req, lock,
          start, activity_log, call>>

\* the variables no request of the tree router writes
aux == <<activity_log, call>>

\* the variables of requests in flight
inflight == <<req, lock, start>>

\* ------------------------------------------------------------------------
\* TreeEngine._load_cache
\* ------------------------------------------------------------------------
\* _node_cache: code -> row, active rows only
_node_cache == { n \in StatNodeDB : n.is_active }
NodeByCode(code) == CHOOSE n \in _node_cache : n.code = code
KnownCode(code) == \E n \in _node_cache : n.code = code

\* Variant: every edge is entered in both directions
_edge_cache_symmetric(E, i) ==
  { e.to_node_id : e \in { d \in E : d.from_node_id = i } }
  \cup { e.from_node_id : e \in { d \in E : d.to_node_id = i } }

\* _edge_cache[from_id]: ids listed for from_id
_edge_cache(E, i) ==
  { e.to_node_id : e \in { d \in E : d.from_node_id = i } }
  \cup { e.from_node_id : e \in { d \in E : d.to_node_id = i /\ d.bidirectional } }

\* node.required_points or 1
PointsNeeded(node) == IF node.required_points = 0 THEN 1 ELSE node.required_points

\* Variant: rounding to the nearest integer, halves upward
IntOfRounded(h) == (h + 1) \div 2

\* int(x) of a value given in halves: truncation toward zero
IntOf(h) == IF h >= 0 THEN h \div 2 ELSE -((-h) \div 2)

\* int(effect.value or 0)
BonusOf(effect) == IF effect.value = << >> THEN 0 ELSE IntOf(effect.value[1])

\* ------------------------------------------------------------------------
\* TreeEngine._is_reachable
\* ------------------------------------------------------------------------
\* Variant: the first allocation is not restricted to origin nodes
_is_reachable_any_first(E, target_id, allocated_ids) ==
  IF allocated_ids = {}
  THEN \E node \in _node_cache : node.id = target_id
  ELSE \E allocated_id \in allocated_ids : target_id \in _edge_cache(E, allocated_id)

_is_reachable(E, target_id, allocated_ids) ==
  IF allocated_ids = {}
  THEN \E node \in _node_cache : node.id = target_id /\ node.node_type = "origin"
  ELSE \E allocated_id \in allocated_ids : target_id \in _edge_cache(E, allocated_id)

\* Variant: the points check refuses a balance equal to the cost
can_allocate_strict_points(E, chr, allocated_ids, character_id, node_code) ==
  IF ~KnownCode(node_code) THEN <<FALSE, "Node not found">>
  ELSE IF character_id # CharId THEN <<FALSE, "Character not found">>
  ELSE LET node == NodeByCode(node_code) IN
    IF chr.stat_points <= PointsNeeded(node)
      THEN <<FALSE, "Not enough stat points">>
    ELSE IF node.id \in allocated_ids
      THEN <<FALSE, "Node already allocated">>
    ELSE IF ~_is_reachable(E, node.id, allocated_ids)
      THEN <<FALSE, "Node not reachable from current allocations">>
    ELSE <<TRUE, "OK">>

\* Variant: can_allocate without the "already allocated" check
can_allocate_no_owned_check(E, chr, allocated_ids, character_id, node_code) ==
  IF ~KnownCode(node_code) THEN <<FALSE, "Node not found">>
  ELSE IF character_id # CharId THEN <<FALSE, "Character not found">>
  ELSE LET node == NodeByCode(node_code) IN
    IF chr.stat_points < PointsNeeded(node)
      THEN <<FALSE, "Not enough stat points">>
    ELSE IF ~_is_reachable(E, node.id, allocated_ids)
      THEN <<FALSE, "Node not reachable from current allocations">>
    ELSE <<TRUE, "OK">>

\* Variant: the allocation set is checked before the points
can_allocate_owned_first(E, chr, allocated_ids, character_id, node_code) ==
  IF ~KnownCode(node_code) THEN <<FALSE, "Node not found">>
  ELSE IF character_id # CharId THEN <<FALSE, "Character not found">>
  ELSE LET node == NodeByCode(node_code) IN
    IF node.id \in allocated_ids
      THEN <<FALSE, "Node already allocated">>
    ELSE IF chr.stat_points < PointsNeeded(node)
      THEN <<FALSE, "Not enough stat points">>
    ELSE IF ~_is_reachable(E, node.id, allocated_ids)
      THEN <<FALSE, "Node not reachable from current allocations">>
    ELSE <<TRUE, "OK">>

\* ------------------------------------------------------------------------
\* TreeEngine.can_allocate: <<ok, reason>>
\*   chr: the CharacterDB object the session holds for CharId
\*   allocated_ids: result of the select on character_nodes
\* ------------------------------------------------------------------------
can_allocate(E, chr, allocated_ids, character_id, node_code) ==
  IF ~KnownCode(node_code) THEN <<FALSE, "Node not found">>
  ELSE IF character_id # CharId THEN <<FALSE, "Character not found">>
  ELSE LET node == NodeByCode(node_code) IN
    IF chr.stat_points < PointsNeeded(node)
      THEN <<FALSE, "Not enough stat points">>
    ELSE IF node.id \in allocated_ids
      THEN <<FALSE, "Node already allocated">>
    ELSE IF ~_is_reachable(E, node.id, allocated_ids)
      THEN <<FALSE, "Node not reachable from current allocations">>
    ELSE <<TRUE, "OK">>

\* ------------------------------------------------------------------------
\* The request's session (AsyncSession): objects it holds and rows it added
\* ------------------------------------------------------------------------
Range(q) == { q[i] : i \in DOMAIN q }

\* State of one allocate_nodes call.
\*   stat_points, bonus : attributes of the CharacterDB / CharacterStatDB
\*                        objects held by the session
\*   pending            : CharacterNodeDB objects passed to db.add, not flushed
\*   flushed            : rows inserted by this transaction
\*   failed             : a flush raised IntegrityError (duplicate key)
NewSession(chr, st) ==
  [stat_points |-> chr.stat_points,
   bonus       |-> [c \in DOMAIN st |-> st[c].allocated_bonus],
   before      |-> [c \in DOMAIN st |-> st[c].base_value + st[c].allocated_bonus],
   after       |-> [c \in DOMAIN st |-> st[c].base_value + st[c].allocated_bonus],
   pending     |-> << >>,
   flushed     |-> {},
   failed      |-> FALSE,
   allocated   |-> << >>,
   errors      |-> << >>,
   total_points |-> 0,
   new_effects |-> << >>]

\* INSERT of the pending rows; (character_id, node_id) is the primary key.
Flush(S, rows) ==
  IF S.failed \/ S.pending = << >> THEN S
  ELSE IF \/ \E i \in DOMAIN S.pending : S.pending[i] \in rows \cup S.flushed
          \/ \E i, j \in DOMAIN S.pending : i # j /\ S.pending[i] = S.pending[j]
    THEN [S EXCEPT !.failed = TRUE]
    ELSE [S EXCEPT !.flushed = @ \cup Range(S.pending), !.pending = << >>]

\* db.execute(select ...) flushes the session first: the session factory
\* (async_session_maker) leaves autoflush at its default, on
Autoflush(S, rows) == Flush(S, rows)

\* "Apply effects": lines 264-274, effects k..Len of the node
RECURSIVE ApplyEffects(_, _, _)
ApplyEffects(S, effs, k) ==
  IF k > Len(effs) THEN S
  ELSE LET effect == effs[k]
           S1 == [S EXCEPT !.new_effects = Append(@, effect)]
           S2 == IF effect.type = "stat_bonus" /\ effect.stat # ""
                    /\ effect.stat \in DOMAIN S.bonus
                 THEN [S1 EXCEPT !.bonus[effect.stat] = @ + BonusOf(effect),
                                 !.after[effect.stat] = @ + BonusOf(effect)]
                 ELSE S1
       IN ApplyEffects(S2, effs, k + 1)

\* Variant: every node is checked against the rows found before the call
ProcessNodeStale(E, S, rows, character_id, code) ==
  LET S1 == Autoflush(S, rows)
      r == can_allocate(E, [stat_points |-> S1.stat_points],
                        rows, character_id, code)
  IN IF S1.failed THEN S1
     ELSE IF ~r[1] THEN [S1 EXCEPT !.errors = Append(@, <<code, r[2]>>)]
     ELSE LET node == NodeByCode(code)
              points_needed == PointsNeeded(node)
          IN IF S1.stat_points < points_needed
             THEN [S1 EXCEPT !.errors = Append(@, <<code, "Not enough points">>)]
             ELSE ApplyEffects(
                    [S1 EXCEPT !.stat_points = @ - points_needed,
                               !.total_points = @ + points_needed,
                               !.pending = Append(@, node.id),
                               !.allocated = Append(@, code)],
                    node.effects, 1)

\* One iteration of "for code in node_codes" (lines 239-274)
ProcessNode(E, S, rows, character_id, code) ==
  LET S1 == Autoflush(S, rows)
      r == can_allocate(E, [stat_points |-> S1.stat_points],
                        rows \cup S1.flushed, character_id, code)
  IN IF S1.failed THEN S1
     ELSE IF ~r[1] THEN [S1 EXCEPT !.errors = Append(@, <<code, r[2]>>)]
     ELSE LET node == NodeByCode(code)
              points_needed == PointsNeeded(node)
          IN IF S1.stat_points < points_needed
             THEN [S1 EXCEPT !.errors = Append(@, <<code, "Not enough points">>)]
             ELSE ApplyEffects(
                    [S1 EXCEPT !.stat_points = @ - points_needed,
                               !.total_points = @ + points_needed,
                               !.pending = Append(@, node.id),
                               !.allocated = Append(@, code)],
                    node.effects, 1)

\* Variant: the loop ends at the first node that is refused
RECURSIVE ProcessNodesUntilError(_, _, _, _, _, _)
ProcessNodesUntilError(E, S, rows, character_id, node_codes, k) ==
  IF k > Len(node_codes) \/ S.failed \/ S.errors # << >> THEN S
  ELSE ProcessNodesUntilError(E, ProcessNode(E, S, rows, character_id, node_codes[k]),
                              rows, character_id, node_codes, k + 1)

\* The loop over node_codes from position k
RECURSIVE ProcessNodes(_, _, _, _, _, _)
ProcessNodes(E, S, rows, character_id, node_codes, k) ==
  IF k > Len(node_codes) \/ S.failed THEN S
  ELSE ProcessNodes(E, ProcessNode(E, S, rows, character_id, node_codes[k]),
                    rows, character_id, node_codes, k + 1)

\* stat_changes with the unchanged entries dropped (lines 279-282)
StatChanges(S) ==
  LET changed == { c \in DOMAIN S.after : S.before[c] # S.after[c] }
  IN [c \in changed |-> [before |-> S.before[c], after |-> S.after[c]]]

\* The session at "await self.db.commit()" (line 276), flush included
RunAllocate(E, chr, st, rows, character_id, node_codes) ==
  Flush(ProcessNodes(E, NewSession(chr, st), rows, character_id, node_codes, 1), rows)

\* The response built at lines 284-292
AllocateResponse(character_id, node_codes, S) ==
  [op |-> "allocate", character_id |-> character_id, node_codes |-> node_codes,
   raised |-> FALSE,
   success |-> Len(S.allocated) > 0,
   points_spent |-> S.total_points,
   points_remaining |-> S.stat_points,
   nodes_allocated |-> S.allocated,
   stat_changes |-> StatChanges(S),
   new_effects |-> S.new_effects,
   errors |-> S.errors]

\* The rows after the commit of session S, and the response; a session whose
\* flush raised is rolled back and the exception reaches the caller.  The
\* UPDATEs of the flush set the columns the session modified, to the values
\* its objects hold.
Committed(db, character_id, node_codes, S) ==
  IF S.failed
  THEN [db |-> db,
        resp |-> [op |-> "allocate", character_id |-> character_id,
                  node_codes |-> node_codes, raised |-> TRUE]]
  ELSE [db |-> [character |->
                  [db.character EXCEPT !.stat_points =
                     IF S.total_points > 0 THEN S.stat_points ELSE @],
                stats |-> [c \in DOMAIN db.stats |->
                             [db.stats[c] EXCEPT !.allocated_bonus =
                                IF S.after[c] # S.before[c] THEN S.bonus[c] ELSE @]],
                character_nodes |-> db.character_nodes \cup S.flushed],
        resp |-> AllocateResponse(character_id, node_codes, S)]

\* TreeEngine.allocate_nodes as a function of the rows it starts from
AllocateOn(E, db, character_id, node_codes) ==
  IF character_id # CharId
  THEN [db |-> db,
        resp |-> [op |-> "allocate", character_id |-> character_id,
                  node_codes |-> node_codes, raised |-> FALSE,
                  success |-> FALSE, points_spent |-> 0,
                  points_remaining |-> 0, nodes_allocated |-> << >>,
                  stat_changes |-> << >>, new_effects |-> << >>,
                  errors |-> << <<"", "Character not found">> >>]]
  ELSE CHOOSE r \in
         { Committed(db, character_id, node_codes, S) :
             S \in { RunAllocate(E, db.character, db.stats, db.character_nodes,
                                 character_id, node_codes) } } : TRUE

\* ------------------------------------------------------------------------
\* Requests, one at a time
\* ------------------------------------------------------------------------
BoundedSeq(T, n) == UNION { [1..k -> T] : k \in 0..n }

NewStat == [base_value |-> 10, stat_xp |-> 0, allocated_bonus |-> 0]

Init ==
  /\ edges \in EdgeConfigs
  /\ \E p \in 0..MaxPoints, t \in 0..MaxTokens :
       character = [level |-> 1, total_xp |-> 0, stat_points |-> p,
                    respec_tokens |-> t]
  /\ stats = [c \in CORE_STATS |-> NewStat]
  /\ character_nodes = {}
  /\ spent = 0
  /\ resp = [op |-> "none"]
  /\ req = << >>
  /\ lock = 0
  /\ start = [stat_points |-> character.stat_points, character_nodes |-> {}]
  /\ activity_log = << >>
  /\ call = [op |-> "none"]

DB == [character |-> character, stats |-> stats,
       character_nodes |-> character_nodes]

\* no response is waiting to be sent: the next request can be served
Idle == resp.op = "none"

\* POST /tree/allocate -> TreeEngine.allocate_nodes
allocate_nodes(character_id, node_codes) ==
  \E r \in { AllocateOn(edges, DB, character_id, node_codes) } :
    /\ Idle
    /\ character' = r.db.character
    /\ stats' = r.db.stats
    /\ character_nodes' = r.db.character_nodes
    /\ spent' = spent + (character.stat_points - r.db.character.stat_points)
    /\ resp' = r.resp
    /\ UNCHANGED <<edges, inflight, aux>>

\* Variant: the refund adds required_points without the "or 1"
RECURSIVE TotalRefundRaw(_)
TotalRefundRaw(ids) ==
  IF ids = {} THEN 0
  ELSE LET i == CHOOSE j \in ids : TRUE
       IN NodeById(i).required_points + TotalRefundRaw(ids \ {i})

\* sum of (required_points or 1) over the rows found by id (lines 325-333)
RECURSIVE TotalRefund(_)
TotalRefund(ids) ==
  IF ids = {} THEN 0
  ELSE LET i == CHOOSE j \in ids : TRUE
       IN PointsNeeded(NodeById(i)) + TotalRefund(ids \ {i})

\* Variant: respec without the check of respec_tokens (lines 309-316)
respec_unchecked(character_id) ==
  /\ Idle
  /\ IF character_id # CharId
     THEN /\ resp' = [op |-> "respec", character_id |-> character_id,
                      success |-> FALSE, nodes_removed |-> 0,
                      points_refunded |-> 0, respec_tokens_remaining |-> 0]
          /\ UNCHANGED <<edges, character, stats, character_nodes, spent, inflight, aux>>
     ELSE LET total_refund == TotalRefund(character_nodes) IN
          /\ character' = [character EXCEPT
                             !.stat_points = @ + total_refund,
                             !.respec_tokens = @ - 1]
          /\ stats' = [c \in DOMAIN stats |-> [stats[c] EXCEPT !.allocated_bonus = 0]]
          /\ character_nodes' = {}
          /\ spent' = 0
          /\ resp' = [op |-> "respec", character_id |-> character_id,
                      success |-> TRUE,
                      nodes_removed |-> Cardinality(character_nodes),
                      points_refunded |-> total_refund,
                      respec_tokens_remaining |-> character.respec_tokens - 1]
          /\ UNCHANGED <<edges, inflight, aux>>

\* Variant: respec that leaves respec_tokens as it is
respec_free(character_id) ==
  /\ Idle
  /\ IF character_id # CharId \/ character.respec_tokens <= 0
     THEN /\ resp' = [op |-> "respec", character_id |-> character_id,
                      success |-> FALSE, nodes_removed |-> 0,
                      points_refunded |-> 0, respec_tokens_remaining |-> 0]
          /\ UNCHANGED <<edges, character, stats, character_nodes, spent, inflight, aux>>
     ELSE LET total_refund == TotalRefund(character_nodes) IN
          /\ character' = [character EXCEPT
                             !.stat_points = @ + total_refund]
          /\ stats' = [c \in DOMAIN stats |-> [stats[c] EXCEPT !.allocated_bonus = 0]]
          /\ character_nodes' = {}
          /\ spent' = 0
          /\ resp' = [op |-> "respec", character_id |-> character_id,
                      success |-> TRUE,
                      nodes_removed |-> Cardinality(character_nodes),
                      points_refunded |-> total_refund,
                      respec_tokens_remaining |-> character.respec_tokens]
          /\ UNCHANGED <<edges, inflight, aux>>

\* POST /tree/respec -> TreeEngine.respec
respec(character_id) ==
  /\ Idle
  /\ IF character_id # CharId \/ character.respec_tokens <= 0
     THEN /\ resp' = [op |-> "respec", character_id |-> character_id,
                      success |-> FALSE, nodes_removed |-> 0,
                      points_refunded |-> 0, respec_tokens_remaining |-> 0]
          /\ UNCHANGED <<edges, character, stats, character_nodes, spent, inflight, aux>>
     ELSE LET total_refund == TotalRefund(character_nodes) IN
          /\ character' = [character EXCEPT
                             !.stat_points = @ + total_refund,
                             !.respec_tokens = @ - 1]
          /\ stats' = [c \in DOMAIN stats |-> [stats[c] EXCEPT !.allocated_bonus = 0]]
          /\ character_nodes' = {}
          /\ spent' = 0
          /\ resp' = [op |-> "respec", character_id |-> character_id,
                      success |-> TRUE,
                      nodes_removed |-> Cardinality(character_nodes),
                      points_refunded |-> total_refund,
                      respec_tokens_remaining |-> character.respec_tokens - 1]
          /\ UNCHANGED <<edges, inflight, aux>>

\* GET /tree/can-allocate/{character_id}/{node_code}
check_can_allocate(character_id, node_code) ==
  LET r == can_allocate(edges, character, character_nodes, character_id, node_code)
  IN /\ Idle
     /\ resp' = [op |-> "can_allocate", character_id |-> character_id,
                 node_code |-> node_code, can_allocate |-> r[1],
                 reason |-> r[2]]
     /\ UNCHANGED <<edges, character, stats, character_nodes, spent, inflight, aux>>

Allocate ==
  \/ \E codes \in BoundedSeq(ActiveCodes, MaxBatch) : allocate_nodes(CharId, codes)
  \/ \E cid \in CharacterIds, code \in Codes : allocate_nodes(cid, <<code>>)
  \/ \E codes \in BoundedSeq({"o", "zz"}, MaxBatch) : allocate_nodes("nobody", codes)
Respec == \E cid \in CharacterIds : respec(cid)
CanAllocate == \E cid \in CharacterIds, code \in Codes :
                 check_can_allocate(cid, code)

\* the response is sent to the caller
Deliver ==
  /\ ~Idle
  /\ resp' = [op |-> "none"]
  /\ UNCHANGED <<edges, character, stats, character_nodes, spent, inflight, aux>>

Next == Allocate \/ Respec \/ CanAllocate \/ Deliver

Spec == Init /\ [][Next]_vars

TypeOK ==
  /\ edges \in EdgeConfigs
  /\ character.stat_points \in Int
  /\ character_nodes \subseteq NodeIds

\* ------------------------------------------------------------------------
\* Two allocate requests in flight for the same character.  Each request has
\* a session of its own (Depends(get_db)); a statement reads the rows
\* committed when it runs and the rows of its own transaction; the UPDATE of
\* the characters row holds the row until the transaction ends.
\* ------------------------------------------------------------------------
Requests == {1, 2}

\* node_codes of the two requests: a batch and a single code
RequestCodes(r) ==
  IF r = 1 THEN BoundedSeq(ActiveCodes, MaxBatch) \ { << >> }
  ELSE { << c >> : c \in ActiveCodes }

ConcInit ==
  /\ edges \in EdgeConfigs
  /\ \E p \in 0..MaxPoints, t \in 0..MaxTokens :
       character = [level |-> 1, total_xp |-> 0, stat_points |-> p,
                    respec_tokens |-> t]
  /\ stats = [c \in CORE_STATS |-> NewStat]
  /\ character_nodes = {}
  /\ spent = 0
  /\ resp = [op |-> "none"]
  /\ req = [r \in Requests |-> [pc |-> "idle"]]
  /\ lock = 0
  /\ start = [stat_points |-> character.stat_points, character_nodes |-> {}]
  /\ activity_log = << >>
  /\ call = [op |-> "none"]

\* POST /tree/allocate arrives (routers/tree.py)
Begin(r) ==
  /\ req[r].pc = "idle"
  /\ \E codes \in RequestCodes(r) :
       req' = [req EXCEPT ![r] = [pc |-> "load_character", node_codes |-> codes]]
  /\ UNCHANGED <<edges, character, stats, character_nodes, spent, resp, lock, start, aux>>

\* select(CharacterDB) of allocate_nodes (lines 208-212)
LoadCharacter(r) ==
  /\ req[r].pc = "load_character"
  /\ req' = [req EXCEPT ![r] =
               [pc |-> "load_stats", node_codes |-> req[r].node_codes,
                S |-> NewSession(character, stats)]]
  /\ UNCHANGED <<edges, character, stats, character_nodes, spent, resp, lock, start, aux>>

\* select(CharacterStatDB) and the initial stat_changes (lines 224-236)
LoadStats(r) ==
  /\ req[r].pc = "load_stats"
  /\ LET L == NewSession(character, stats)
     IN req' = [req EXCEPT ![r] =
                  [pc |-> "loop", node_codes |-> req[r].node_codes, k |-> 1,
                   S |-> [req[r].S EXCEPT !.bonus = L.bonus,
                                          !.before = L.before,
                                          !.after = L.after]]]
  /\ UNCHANGED <<edges, character, stats, character_nodes, spent, resp, lock, start, aux>>

\* the flush of a session with pending rows waits for the characters row
CanFlush(r) == req[r].S.pending # << >> => lock \in {0, r}

\* one iteration of the loop (lines 239-274)
Iterate(r) ==
  /\ req[r].pc = "loop"
  /\ req[r].k <= Len(req[r].node_codes)
  /\ CanFlush(r)
  /\ \E T \in { ProcessNode(edges, req[r].S, character_nodes, CharId,
                            req[r].node_codes[req[r].k]) } :
       IF T.failed
       THEN /\ req' = [req EXCEPT ![r] = [pc |-> "raised",
                                          node_codes |-> req[r].node_codes]]
            /\ lock' = IF lock = r THEN 0 ELSE lock
       ELSE /\ req' = [req EXCEPT ![r].S = T, ![r].k = @ + 1]
            /\ lock' = IF req[r].S.pending # << >> THEN r ELSE lock
  /\ UNCHANGED <<edges, character, stats, character_nodes, spent, resp, start, aux>>

\* await self.db.commit() and the response (lines 276-292)
CommitTx(r) ==
  /\ req[r].pc = "loop"
  /\ req[r].k > Len(req[r].node_codes)
  /\ CanFlush(r)
  /\ \E c \in { Committed(DB, CharId, req[r].node_codes,
                          Flush(req[r].S, character_nodes)) } :
       /\ character' = c.db.character
       /\ stats' = c.db.stats
       /\ character_nodes' = c.db.character_nodes
       /\ req' = [req EXCEPT ![r] =
                    [pc |-> IF c.resp.raised THEN "raised" ELSE "done",
                     node_codes |-> req[r].node_codes, resp |-> c.resp]]
  /\ lock' = IF lock = r THEN 0 ELSE lock
  /\ UNCHANGED <<edges, spent, resp, start, aux>>

ConcNext ==
  \E r \in Requests :
    Begin(r) \/ LoadCharacter(r) \/ LoadStats(r) \/ Iterate(r) \/ CommitTx(r)

SpecConc == ConcInit /\ [][ConcNext]_vars

\* ------------------------------------------------------------------------
\* A respec request that overlaps another request of the same character
\* (TreeEngine.respec, lines 294-362, one step per statement sent to the
\* database)
\* ------------------------------------------------------------------------

\* TreeEngine.respec as a function of the rows: the rows after the call
RespecOn(db, character_id) ==
  IF character_id # CharId \/ db.character.respec_tokens <= 0
  THEN db
  ELSE [character |-> [db.character EXCEPT
                         !.stat_points = @ + TotalRefund(db.character_nodes),
                         !.respec_tokens = @ - 1],
        stats |-> [c \in DOMAIN db.stats |->
                     [db.stats[c] EXCEPT !.allocated_bonus = 0]],
        character_nodes |-> {}]

\* the rows of a fresh character with p stat points and t respec tokens
FreshDB(p, t) ==
  [character |-> [level |-> 1, total_xp |-> 0, stat_points |-> p,
                  respec_tokens |-> t],
   stats |-> [c \in CORE_STATS |-> NewStat],
   character_nodes |-> {}]

\* allocations made before the two requests arrive
EarlierCodes == { << >>, << "o" >>, << "o", "a" >> }

\* request 1 is an allocate or a respec, request 2 is a respec
ConcInitR ==
  /\ edges \in EdgeConfigs
  /\ \E p \in 0..MaxPoints, t \in 0..MaxTokens, codes \in EarlierCodes :
       \E d \in { AllocateOn(edges, FreshDB(p, t), CharId, codes).db } :
         /\ character = d.character
         /\ stats = d.stats
         /\ character_nodes = d.character_nodes
         /\ start = [stat_points |-> d.character.stat_points,
                     character_nodes |-> d.character_nodes, db |-> d]
  /\ spent = 0
  /\ resp = [op |-> "none"]
  /\ req \in { [r \in Requests |-> [pc |-> IF r = 1 THEN k ELSE "r_idle"]] :
                 k \in {"idle", "r_idle"} }
  /\ lock = 0
  /\ activity_log = << >>
  /\ call = [op |-> "none"]

\* POST /tree/respec arrives (routers/tree.py, lines 66-78)
RespecBegin(r) ==
  /\ req[r].pc = "r_idle"
  /\ req' = [req EXCEPT ![r] = [pc |-> "r_load_character"]]
  /\ UNCHANGED <<edges, character, stats, character_nodes, spent, resp, lock, start, aux>>

\* select(CharacterDB) and the check of respec_tokens (lines 297-316)
RespecLoadCharacter(r) ==
  /\ req[r].pc = "r_load_character"
  /\ req' = [req EXCEPT ![r] =
               IF character.respec_tokens <= 0
               THEN [pc |-> "done", success |-> FALSE, points_refunded |-> 0]
               ELSE [pc |-> "r_load_nodes",
                     stat_points |-> character.stat_points,
                     respec_tokens |-> character.respec_tokens]]
  /\ UNCHANGED <<edges, character, stats, character_nodes, spent, resp, lock, start, aux>>

\* select(CharacterNodeDB) and the sum of the refund (lines 318-335)
RespecLoadNodes(r) ==
  /\ req[r].pc = "r_load_nodes"
  /\ req' = [req EXCEPT ![r] =
               [pc |-> "r_delete",
                stat_points |-> req[r].stat_points,
                respec_tokens |-> req[r].respec_tokens,
                total_refund |-> TotalRefund(character_nodes),
                nodes_removed |-> Cardinality(character_nodes)]]
  /\ UNCHANGED <<edges, character, stats, character_nodes, spent, resp, lock, start, aux>>

\* rows another respec has deleted and not yet committed
DeletedByOthers(r) ==
  UNION { IF req[q].pc \in {"r_load_stats", "r_commit"}
          THEN req[q].deleted ELSE {} : q \in Requests \ {r} }

\* delete(CharacterNodeDB) (lines 337-341): it deletes the committed rows
\* and waits for a row another transaction is deleting
RespecDelete(r) ==
  /\ req[r].pc = "r_delete"
  /\ DeletedByOthers(r) \cap character_nodes = {}
  /\ req' = [req EXCEPT ![r] =
               [pc |-> "r_load_stats",
                stat_points |-> req[r].stat_points,
                respec_tokens |-> req[r].respec_tokens,
                total_refund |-> req[r].total_refund,
                nodes_removed |-> req[r].nodes_removed,
                deleted |-> character_nodes]]
  /\ UNCHANGED <<edges, character, stats, character_nodes, spent, resp, lock, start, aux>>

\* select(CharacterStatDB) and allocated_bonus = 0 (lines 343-349): a row
\* loaded with allocated_bonus 0 is not modified and is not written
RespecLoadStats(r) ==
  /\ req[r].pc = "r_load_stats"
  /\ req' = [req EXCEPT ![r] =
               [pc |-> "r_commit",
                stat_points |-> req[r].stat_points,
                respec_tokens |-> req[r].respec_tokens,
                total_refund |-> req[r].total_refund,
                nodes_removed |-> req[r].nodes_removed,
                deleted |-> req[r].deleted,
                zeroed |-> { c \in DOMAIN stats : stats[c].allocated_bonus # 0 }]]
  /\ UNCHANGED <<edges, character, stats, character_nodes, spent, resp, lock, start, aux>>

\* stat_points += total_refund, respec_tokens -= 1 and commit (lines
\* 351-355): the flush writes the columns the session changed, as absolute
\* values, and waits for the characters row
RespecCommit(r) ==
  /\ req[r].pc = "r_commit"
  /\ lock \in {0, r}
  /\ character' = [character EXCEPT
                     !.stat_points = IF req[r].total_refund # 0
                                     THEN req[r].stat_points + req[r].total_refund
                                     ELSE @,
                     !.respec_tokens = req[r].respec_tokens - 1]
  /\ stats' = [c \in DOMAIN stats |->
                 IF c \in req[r].zeroed
                 THEN [stats[c] EXCEPT !.allocated_bonus = 0] ELSE stats[c]]
  /\ character_nodes' = character_nodes \ req[r].deleted
  /\ req' = [req EXCEPT ![r] = [pc |-> "done", success |-> TRUE,
                                points_refunded |-> req[r].total_refund]]
  /\ UNCHANGED <<edges, spent, resp, lock, start, aux>>

ConcNextR ==
  \E r \in Requests :
    \/ Begin(r) \/ LoadCharacter(r) \/ LoadStats(r) \/ Iterate(r) \/ CommitTx(r)
    \/ RespecBegin(r) \/ RespecLoadCharacter(r) \/ RespecLoadNodes(r)
    \/ RespecDelete(r) \/ RespecLoadStats(r) \/ RespecCommit(r)

SpecConcR == ConcInitR /\ [][ConcNextR]_vars

\* ========================================================================
\* Properties
\* ========================================================================
AllocatedOrigins == { i \in character_nodes : NodeById(i).node_type = "origin" }

\* an edge row joins i and j, in either direction
Joined(i, j) ==
  \E e \in edges : \/ (e.from_node_id = i /\ e.to_node_id = j)
                   \/ (e.from_node_id = j /\ e.to_node_id = i)

\* the nodes of A linked to a node of R by a path of edges inside A
RECURSIVE LinkedWithin(_, _)
LinkedWithin(R, A) ==
  LET more == R \cup { j \in A : \E i \in R : Joined(i, j) }
  IN IF more = R THEN R ELSE LinkedWithin(more, A)

\* C1: the allocation set is empty, or it holds an origin node and every
\* allocated node is linked to an allocated origin by a path of edges that
\* stays inside the allocation set.
C1_Connectivity ==
  \/ character_nodes = {}
  \/ /\ AllocatedOrigins # {}
     /\ LinkedWithin(AllocatedOrigins, character_nodes) = character_nodes

\* three nodes are allocated, one of them two edges away from the origin
C1_Witness ==
  /\ Cardinality(character_nodes) >= 3
  /\ \E i \in character_nodes :
       /\ NodeById(i).node_type # "origin"
       /\ \A o \in AllocatedOrigins : ~Joined(o, i)
  /\ resp.op = "allocate"

\* ------------------------------------------------------------------------
\* Respec
\* ------------------------------------------------------------------------
\* the step is a respec that reported success
RespecSucceeded == resp'.op = "respec" /\ resp'.success

\* C3: a successful respec adds to stat_points exactly the points spent by
\* the allocations made since the allocation set was last empty, empties the
\* allocation set, sets allocated_bonus to 0 on every attribute and takes
\* exactly one respec token.
C3_RespecRefundsSpent ==
  [][ RespecSucceeded =>
        /\ character'.stat_points = character.stat_points + spent
        /\ resp'.points_refunded = spent
        /\ character_nodes' = {}
        /\ \A c \in DOMAIN stats' : stats'[c].allocated_bonus = 0
        /\ character'.respec_tokens = character.respec_tokens - 1 ]_vars

\* a respec has refunded three or more points of two or more nodes, one of
\* them the node whose required_points is 0
C3_Witness ==
  /\ resp.op = "respec"
  /\ resp.success
  /\ resp.points_refunded >= 3
  /\ resp.nodes_removed >= 2
  /\ character_nodes = {}

\* C4: a respec for an unknown character or with respec_tokens <= 0 reports
\* failure and leaves stat_points, respec_tokens, the allocation set and
\* every allocated_bonus as they were; a respec that succeeds removes the
\* whole allocation set.
C4_RespecAllOrNothing ==
  [][ resp'.op = "respec" =>
        /\ (resp'.character_id # CharId \/ character.respec_tokens <= 0)
             => /\ ~resp'.success
                /\ UNCHANGED <<character, stats, character_nodes>>
        /\ ~resp'.success => UNCHANGED <<character, stats, character_nodes>>
        /\ resp'.success => character_nodes' = {} ]_vars

\* a respec was refused for the known character while nodes are allocated
\* and bonuses are in place
C4_Witness ==
  /\ resp.op = "respec"
  /\ ~resp.success
  /\ resp.character_id = CharId
  /\ character.respec_tokens = 0
  /\ Cardinality(character_nodes) >= 2
  /\ stats["STR"].allocated_bonus > 0

\* ------------------------------------------------------------------------
\* Allocate
\* ------------------------------------------------------------------------
\* the step is an allocate_nodes call for the known character
AllocateStep == resp'.op = "allocate" /\ resp'.character_id = CharId

\* the session of the call of this step after k iterations of its loop
LoopAt(node_codes, k) ==
  ProcessNodes(edges, NewSession(character, stats), character_nodes, CharId,
               SubSeq(node_codes, 1, k), 1)

RECURSIVE SumPointsNeeded(_, _)
SumPointsNeeded(codes, k) ==
  IF k > Len(codes) THEN 0
  ELSE PointsNeeded(NodeByCode(codes[k])) + SumPointsNeeded(codes, k + 1)

NoRepeats(q) == \A i, j \in DOMAIN q : i # j => q[i] # q[j]

\* C5 as stated: a code that is listed twice and allocated by the call is
\* allocated once, and the errors of the call hold "Node already allocated"
\* for it, whatever stat_points remain.
C5_Original ==
  (resp.op = "allocate" /\ resp.character_id = CharId /\ ~resp.raised) =>
    \A i, j \in DOMAIN resp.node_codes :
      (/\ i < j
       /\ resp.node_codes[i] = resp.node_codes[j]
       /\ resp.node_codes[i] \in Range(resp.nodes_allocated))
      => /\ NoRepeats(resp.nodes_allocated)
         /\ <<resp.node_codes[j], "Node already allocated">> \in Range(resp.errors)

\* C5 (amended): within one call no code is allocated twice and
\* required_points are deducted once per allocated node; an occurrence of a
\* code that the same call has already allocated is skipped and reported in
\* errors, as "Node already allocated" when the stat_points left at that
\* moment cover the node's required_points and as "Not enough stat points"
\* when they do not.
C5_ExactlyOnceInBatch ==
  [][ AllocateStep =>
        /\ ~resp'.raised
        /\ NoRepeats(resp'.nodes_allocated)
        /\ character.stat_points - character'.stat_points
             = SumPointsNeeded(resp'.nodes_allocated, 1)
        /\ resp'.points_spent = SumPointsNeeded(resp'.nodes_allocated, 1)
        /\ \A j \in DOMAIN resp'.node_codes :
             LET code == resp'.node_codes[j]
                 before == LoopAt(resp'.node_codes, j - 1)
                 after == LoopAt(resp'.node_codes, j)
                 entry == <<code,
                            IF before.stat_points >= PointsNeeded(NodeByCode(code))
                            THEN "Node already allocated"
                            ELSE "Not enough stat points">>
             IN code \in Range(before.allocated) =>
                  /\ after.allocated = before.allocated
                  /\ after.stat_points = before.stat_points
                  /\ after.errors = Append(before.errors, entry)
                  /\ resp'.errors[Len(after.errors)] = entry ]_vars

\* a call listed a code twice, allocated it once and reported the second
\* occurrence as already allocated
C5_Witness ==
  /\ resp.op = "allocate"
  /\ resp.character_id = CharId
  /\ ~resp.raised
  /\ Len(resp.node_codes) = 2
  /\ resp.node_codes[1] = resp.node_codes[2]
  /\ resp.nodes_allocated = << resp.node_codes[1] >>
  /\ resp.errors = << <<resp.node_codes[2], "Node already allocated">> >>

\* node n is the target of an edge from m, or the source of a bidirectional
\* edge into m
AdjacentTo(n, m) ==
  \E e \in edges : \/ (e.from_node_id = m /\ e.to_node_id = n)
                   \/ (e.bidirectional /\ e.from_node_id = n /\ e.to_node_id = m)

\* the step allocates the single known code of a node that is adjacent to no
\* owned node and, with nothing owned, is not an origin
C6_Case ==
  /\ AllocateStep
  /\ Len(resp'.node_codes) = 1
  /\ KnownCode(resp'.node_codes[1])
  /\ LET node == NodeByCode(resp'.node_codes[1])
     IN /\ \A m \in character_nodes : ~AdjacentTo(node.id, m)
        /\ character_nodes = {} => node.node_type # "origin"

\* C6 as stated: such an allocation fails with "Node not reachable from
\* current allocations" for every value of stat_points.
C6_Original ==
  [][ C6_Case =>
        /\ ~resp'.raised
        /\ ~resp'.success
        /\ resp'.errors = << <<resp'.node_codes[1],
                               "Node not reachable from current allocations">> >>
     ]_vars

\* C6 (amended): such an allocation always fails and changes nothing; the
\* failure reported is "Not enough stat points" when stat_points are below
\* the node's required_points, otherwise "Node already allocated" when the
\* node is owned, otherwise "Node not reachable from current allocations".
C6_UnreachableFails ==
  [][ C6_Case =>
        LET node == NodeByCode(resp'.node_codes[1])
            reason == IF character.stat_points < PointsNeeded(node)
                        THEN "Not enough stat points"
                      ELSE IF node.id \in character_nodes
                        THEN "Node already allocated"
                      ELSE "Node not reachable from current allocations"
        IN /\ ~resp'.raised
           /\ ~resp'.success
           /\ resp'.nodes_allocated = << >>
           /\ resp'.errors = << <<resp'.node_codes[1], reason>> >>
           /\ UNCHANGED <<character, stats, character_nodes>> ]_vars

\* with nodes owned and points to spare, the allocation of a node adjacent
\* to none of them was refused as unreachable
C6_Witness ==
  /\ resp.op = "allocate"
  /\ resp.character_id = CharId
  /\ ~resp.raised
  /\ Len(resp.node_codes) = 1
  /\ resp.errors = << <<resp.node_codes[1],
                        "Node not reachable from current allocations">> >>
  /\ character_nodes # {}
  /\ KnownCode(resp.node_codes[1])
  /\ character.stat_points >= PointsNeeded(NodeByCode(resp.node_codes[1]))

\* ------------------------------------------------------------------------
\* CanAllocate
\* ------------------------------------------------------------------------
\* Reachable(A): the origin nodes when A is empty, otherwise the nodes
\* adjacent to a node of A
ReachableFrom(A) ==
  IF A = {}
  THEN { n.id : n \in { m \in StatNodeDB : m.is_active /\ m.node_type = "origin" } }
  ELSE { i \in NodeIds : \E m \in A : AdjacentTo(i, m) }

\* C7: can_allocate answers yes exactly when the code names an active node,
\* the character exists, stat_points cover required_points, the node is not
\* allocated and it is in Reachable(A); the call changes no state.
C7_CanAllocateIff ==
  [][ resp'.op = "can_allocate" =>
        /\ UNCHANGED <<edges, character, stats, character_nodes, aux>>
        /\ resp'.can_allocate <=>
             \E n \in StatNodeDB :
               /\ n.code = resp'.node_code
               /\ n.is_active
               /\ resp'.character_id = CharId
               /\ character.stat_points >= PointsNeeded(n)
               /\ n.id \notin character_nodes
               /\ n.id \in ReachableFrom(character_nodes) ]_vars

\* can_allocate said yes for a neighbour of an owned node, with stat_points
\* equal to what the node needs
C7_Witness ==
  /\ resp.op = "can_allocate"
  /\ resp.can_allocate
  /\ character_nodes # {}
  /\ character.stat_points = PointsNeeded(NodeByCode(resp.node_code))

\* ------------------------------------------------------------------------
\* Batches
\* ------------------------------------------------------------------------
\* the codes of a list allocated by one call each, in the order given
RECURSIVE OneAtATime(_, _, _)
OneAtATime(acc, node_codes, k) ==
  IF k > Len(node_codes) THEN acc
  ELSE LET r == AllocateOn(edges, acc.db, CharId, << node_codes[k] >>)
       IN OneAtATime([db |-> r.db,
                      nodes_allocated |-> acc.nodes_allocated \o r.resp.nodes_allocated,
                      errors |-> acc.errors \o r.resp.errors,
                      points_spent |-> acc.points_spent + r.resp.points_spent],
                     node_codes, k + 1)

\* C8: a batch leaves the rows, the allocated nodes, the errors and the
\* points spent that its codes leave when each is allocated by a call of its
\* own in the same order; from an empty allocation set with two or more
\* points, [o, a] with a next to the origin o allocates both and [a, o]
\* allocates o only.
C8_BatchIsSequential ==
  [][ (AllocateStep /\ ~resp'.raised) =>
        /\ \A s \in { OneAtATime([db |-> DB, nodes_allocated |-> << >>,
                                  errors |-> << >>, points_spent |-> 0],
                                 resp'.node_codes, 1) } :
             /\ character' = s.db.character
             /\ stats' = s.db.stats
             /\ character_nodes' = s.db.character_nodes
             /\ resp'.nodes_allocated = s.nodes_allocated
             /\ resp'.errors = s.errors
             /\ resp'.points_spent = s.points_spent
        /\ (character_nodes = {} /\ character.stat_points >= 2 /\ AdjacentTo(3, 1))
             => /\ resp'.node_codes = <<"o", "a">> => resp'.nodes_allocated = <<"o", "a">>
                /\ resp'.node_codes = <<"a", "o">> => resp'.nodes_allocated = <<"o">>
     ]_vars

\* a batch allocated the origin and then its neighbour
C8_Witness ==
  /\ resp.op = "allocate"
  /\ resp.character_id = CharId
  /\ ~resp.raised
  /\ resp.node_codes = <<"o", "a">>
  /\ resp.nodes_allocated = <<"o", "a">>
  /\ character_nodes = {1, 3}

Count(x, q) == Cardinality({ i \in DOMAIN q : q[i] = x })
CountErrors(code, q) == Cardinality({ i \in DOMAIN q : q[i][1] = code })

\* C9 as stated: every requested code of a call is in nodes_allocated or has
\* one entry in errors (so the two lists are together as long as the request)
\* and success is true exactly when a node was allocated.
C9_Original ==
  (resp.op = "allocate" /\ Len(resp.node_codes) >= 1) =>
    /\ ~resp.raised
    /\ Len(resp.nodes_allocated) + Len(resp.errors) = Len(resp.node_codes)
    /\ resp.success <=> Len(resp.nodes_allocated) > 0

\* C9 (amended): for an existing character the call never aborts: every
\* occurrence of a code in the request is either allocated or has exactly one
\* entry in errors, the refused codes change nothing (the call leaves what a
\* call with only the allocated codes leaves), and success is true exactly
\* when a node was allocated.  For an unknown character the call fails as a
\* whole with the single error "Character not found".
C9_PartialSuccess ==
  [][ resp'.op = "allocate" =>
        /\ ~resp'.raised
        /\ resp'.success <=> Len(resp'.nodes_allocated) > 0
        /\ resp'.character_id # CharId =>
             /\ resp'.nodes_allocated = << >>
             /\ resp'.errors = << <<"", "Character not found">> >>
             /\ UNCHANGED <<character, stats, character_nodes>>
        /\ resp'.character_id = CharId =>
             /\ \A code \in Range(resp'.node_codes) :
                  Count(code, resp'.node_codes)
                    = Count(code, resp'.nodes_allocated)
                      + CountErrors(code, resp'.errors)
             /\ Len(resp'.nodes_allocated) + Len(resp'.errors)
                  = Len(resp'.node_codes)
             /\ \A r \in { AllocateOn(edges, DB, CharId, resp'.nodes_allocated) } :
                  /\ r.resp.nodes_allocated = resp'.nodes_allocated
                  /\ r.resp.errors = << >>
                  /\ character' = r.db.character
                  /\ stats' = r.db.stats
                  /\ character_nodes' = r.db.character_nodes ]_vars

\* a call refused its first code and allocated its second
C9_Witness ==
  /\ resp.op = "allocate"
  /\ resp.character_id = CharId
  /\ ~resp.raised
  /\ Len(resp.node_codes) = 2
  /\ Len(resp.errors) = 1
  /\ resp.errors[1][1] = resp.node_codes[1]
  /\ resp.nodes_allocated = << resp.node_codes[2] >>
  /\ resp.success

\* ------------------------------------------------------------------------
\* Bonus accounting
\* ------------------------------------------------------------------------
RECURSIVE SumSeq(_, _)
SumSeq(q, k) == IF k > Len(q) THEN 0 ELSE q[k] + SumSeq(q, k + 1)

\* the values (in halves) of the stat_bonus effects of node i for stat c
ValueHalves(effect) == IF effect.value = << >> THEN 0 ELSE effect.value[1]

NodeHalves(i, c) ==
  LET effs == NodeById(i).effects
  IN SumSeq([k \in DOMAIN effs |->
               IF effs[k].type = "stat_bonus" /\ effs[k].stat = c
               THEN ValueHalves(effs[k]) ELSE 0], 1)

\* the same with each value cut to its integer part
NodeWhole(i, c) ==
  LET effs == NodeById(i).effects
  IN SumSeq([k \in DOMAIN effs |->
               IF effs[k].type = "stat_bonus" /\ effs[k].stat = c
               THEN (IF ValueHalves(effs[k]) >= 0
                     THEN ValueHalves(effs[k]) \div 2
                     ELSE -((-ValueHalves(effs[k])) \div 2))
               ELSE 0], 1)

RECURSIVE SumHalves(_, _)
SumHalves(ids, c) ==
  IF ids = {} THEN 0
  ELSE LET i == CHOOSE j \in ids : TRUE
       IN NodeHalves(i, c) + SumHalves(ids \ {i}, c)

RECURSIVE SumWhole(_, _)
SumWhole(ids, c) ==
  IF ids = {} THEN 0
  ELSE LET i == CHOOSE j \in ids : TRUE
       IN NodeWhole(i, c) + SumWhole(ids \ {i}, c)

\* C10 as stated: allocated_bonus is the sum of the values of the stat_bonus
\* effects of the allocated nodes for the attribute, and is never negative.
C10_Original ==
  \A c \in DOMAIN stats :
    /\ 2 * stats[c].allocated_bonus = SumHalves(character_nodes, c)
    /\ stats[c].allocated_bonus >= 0

\* C10 (amended): allocated_bonus is the sum, over the allocated nodes, of
\* the integer parts int(value or 0) of their stat_bonus effects for the
\* attribute; with no configured value below 0 it is never negative.
C10_BonusAccounting ==
  \A c \in DOMAIN stats :
    /\ stats[c].allocated_bonus = SumWhole(character_nodes, c)
    /\ stats[c].allocated_bonus >= 0

\* bonuses of two nodes add up on STR while a third node adds to INT
C10_Witness ==
  /\ {1, 3, 4} \subseteq character_nodes
  /\ stats["STR"].allocated_bonus = 2
  /\ stats["INT"].allocated_bonus = 2
  /\ stats["WIS"].allocated_bonus = 0

\* ------------------------------------------------------------------------
\* Two requests in flight
\* ------------------------------------------------------------------------
BothEnded == \A r \in Requests : req[r].pc \in {"done", "raised"}

\* C2: with two allocate requests in flight for one character, stat_points
\* is never negative and the required_points of the nodes allocated by the
\* two requests never add up to more than the stat_points held before them.
C2_NoOverdraw ==
  /\ character.stat_points >= 0
  /\ TotalRefund(character_nodes \ start.character_nodes) <= start.stat_points

\* ------------------------------------------------------------------------
\* Serial equivalence of an allocate and a respec, or of two respecs
\* ------------------------------------------------------------------------

\* the columns the claim compares
Outcome(db) ==
  [stat_points |-> db.character.stat_points,
   respec_tokens |-> db.character.respec_tokens,
   character_nodes |-> db.character_nodes,
   allocated_bonus |-> [c \in DOMAIN db.stats |-> db.stats[c].allocated_bonus]]

\* request r run alone on the rows db
RunAlone(db, r) ==
  IF "node_codes" \in DOMAIN req[r]
  THEN AllocateOn(edges, db, CharId, req[r].node_codes).db
  ELSE RespecOn(db, CharId)

\* the outcomes of the two serial orders of the requests
SerialOutcomes ==
  { Outcome(RunAlone(RunAlone(start.db, 1), 2)),
    Outcome(RunAlone(RunAlone(start.db, 2), 1)) }

\* C11: when an allocate and a respec (or two respecs) of one character
\* overlap, the final stat_points, respec_tokens, allocation set and
\* allocated_bonus values are those of one of the two serial orders.
C11_SerialEquivalence ==
  BothEnded => Outcome(DB) \in SerialOutcomes

\* ------------------------------------------------------------------------
\* ProgressionService (services/progression.py)
\* ------------------------------------------------------------------------

\* int(100 * math.pow(n, 1.8)) for n = 1 .. 101 (line 33)
LevelXp ==
  <<
     100, 348, 722, 1212, 1811, 2515, 3320, 4222, 5219, 6309, 7490,
     8760, 10118, 11561, 13090, 14703, 16398, 18175, 20033, 21971,
     23988, 26083, 28255, 30505, 32831, 35233, 37709, 40260, 42886,
     45584, 48356, 51200, 54115, 57103, 60162, 63291, 66491, 69760,
     73099, 76508, 79985, 83531, 87145, 90826, 94576, 98392, 102276,
     106226, 110243, 114326, 118474, 122689, 126968, 131313, 135722,
     140196, 144735, 149338, 154004, 158734, 163528, 168385, 173305,
     178288, 183334, 188442, 193613, 198845, 204140, 209496, 214914,
     220393, 225933, 231535, 237197, 242920, 248704, 254548, 260452,
     266417, 272441, 278525, 284669, 290872, 297135, 303457, 309837,
     316277, 322776, 329333, 335949, 342624, 349356, 356147, 362996,
     369903, 376867, 383890, 390969, 398107, 405301
  >>

\* xp_for_level (lines 29-33)
xp_for_level(level) == IF level <= 1 THEN 0 ELSE LevelXp[level - 1]

\* the loop "while self.xp_for_level(level + 1) <= xp: level += 1"
\* (lines 24-25)
RECURSIVE LevelScan(_, _)
LevelScan(level, xp) ==
  IF xp_for_level(level + 1) <= xp THEN LevelScan(level + 1, xp) ELSE level

\* 100 * (level - 1)^1.8 is a whole number: level - 1 is a fifth power
LevelXpExact(level) == \E k \in 1..3 : k * k * k * k * k = level - 1

\* int(math.pow(xp / 100, 1 / 1.8) + 1) (line 21), for xp > 0: the level
\* whose real threshold 100 * (level - 1)^1.8 is the last one <= xp; where
\* xp is exactly such a threshold the floating-point power may round below
\* the whole number (down)
LevelEstimate(xp, down) ==
  LET level == LevelScan(1, xp)
  IN IF level > 1 /\ xp_for_level(level) = xp
        /\ (~LevelXpExact(level) \/ down)
     THEN level - 1 ELSE level

Min(a, b) == IF a <= b THEN a ELSE b

\* Variant: level_from_xp without the loop of lines 24-25
level_from_xp_estimate(xp, down) ==
  IF xp <= 0 THEN 1 ELSE Min(LevelEstimate(xp, down), 100)

\* level_from_xp (lines 14-27)
level_from_xp(xp, down) ==
  IF xp <= 0 THEN 1 ELSE Min(LevelScan(LevelEstimate(xp, down), xp), 100)

\* the largest r in lo..hi with r * r <= v
RECURSIVE IsqrtIn(_, _, _)
IsqrtIn(lo, hi, v) ==
  IF lo = hi THEN lo
  ELSE LET mid == (lo + hi + 1) \div 2
       IN IF mid * mid <= v THEN IsqrtIn(mid, hi, v) ELSE IsqrtIn(lo, mid - 1, v)

\* 2500 * (level - 10)^3, the square of 50 * (level - 10)^1.5
StatXpSquare(level) == 2500 * (level - 10) * (level - 10) * (level - 10)

\* stat_xp_for_level (lines 73-77): int(50 * math.pow(level - 10, 1.5))
\* int(50 * math.pow(level - 10, 1.5)) for the levels 11..105: the whole
\* part of the square root of StatXpSquare(level)
StatXp ==
  << 50, 141, 259, 400, 559, 734, 926, 1131, 1350, 1581, 1824, 2078,
     2343, 2619, 2904, 3200, 3504, 3818, 4140, 4472, 4811, 5159, 5515,
     5878, 6250, 6628, 7014, 7408, 7808, 8215, 8630, 9050, 9478, 9912,
     10353, 10800, 11253, 11712, 12177, 12649, 13126, 13609, 14098,
     14593, 15093, 15599, 16110, 16627, 17150, 17677, 18210, 18748,
     19292, 19840, 20394, 20953, 21517, 22085, 22659, 23237, 23821,
     24409, 25002, 25600, 26202, 26809, 27420, 28037, 28657, 29283,
     29912, 30547, 31185, 31828, 32475, 33127, 33783, 34443, 35108,
     35777, 36450, 37127, 37808, 38493, 39183, 39876, 40574, 41275,
     41981, 42690, 43404, 44121, 44842, 45568, 46297 >>

stat_xp_for_level(level) == IF level <= 10 THEN 0 ELSE StatXp[level - 10]

\* the loop of lines 68-69
RECURSIVE StatLevelScan(_, _)
StatLevelScan(level, xp) ==
  IF stat_xp_for_level(level + 1) <= xp
  THEN StatLevelScan(level + 1, xp) ELSE level

\* 50 * (level - 10)^1.5 is a whole number
StatXpExact(level) ==
  stat_xp_for_level(level) * stat_xp_for_level(level) = StatXpSquare(level)

\* int(math.pow(xp / 50, 1 / 1.5) + 10) (line 65), for xp > 0
StatLevelEstimate(xp, down) ==
  LET level == StatLevelScan(10, xp)
  IN IF level > 10 /\ stat_xp_for_level(level) = xp
        /\ (~StatXpExact(level) \/ down)
     THEN level - 1 ELSE level

\* stat_level_from_xp (lines 58-71)
stat_level_from_xp(xp, down) ==
  IF xp <= 0 THEN 10
  ELSE Min(StatLevelScan(StatLevelEstimate(xp, down), xp), 100)

\* Variant: one stat point for every level
stat_points_for_level_flat(level) == 1

\* stat_points_for_level (lines 50-56)
stat_points_for_level(level) ==
  IF level % 10 = 0 THEN 3 ELSE IF level % 5 = 0 THEN 2 ELSE 1

\* Variant: only the level reached grants its points
SumStatPointsLast(lo, hi) ==
  IF lo > hi THEN 0 ELSE stat_points_for_level(hi)

\* for level in range(lo, hi + 1): stat_points += ... (lines 119-121)
RECURSIVE SumStatPoints(_, _)
SumStatPoints(lo, hi) ==
  IF lo > hi THEN 0
  ELSE stat_points_for_level(lo) + SumStatPoints(lo + 1, hi)

\* calculate_level_ups (lines 110-123)
calculate_level_ups(old_xp, new_xp, down) ==
  LET old_level == level_from_xp(old_xp, down)
      new_level == level_from_xp(new_xp, down)
  IN << old_level, new_level, SumStatPoints(old_level + 1, new_level) >>

\* calculate_stat_level_ups (lines 125-136)
calculate_stat_level_ups(old_xp, new_xp, down) ==
  LET old_level == stat_level_from_xp(old_xp, down)
      new_level == stat_level_from_xp(new_xp, down)
  IN << old_level, new_level, new_level > old_level >>

\* round(v, 2) of v = 100 * n / d with 0 < n < d, in hundredths: the
\* nearest one; where v lies halfway between two of them its floating-point
\* value lies on either side (up)
RoundHundredths(n, d, up) ==
  LET q == (10000 * n) \div d
      r == (10000 * n) % d
  IN IF 2 * r > d \/ (2 * r = d /\ up) THEN q + 1 ELSE q

\* level_progress (lines 39-48), in hundredths of a percent
level_progress(xp, level, up) ==
  LET current_threshold == xp_for_level(level)
      next_threshold == xp_for_level(level + 1)
  IN IF next_threshold <= current_threshold THEN 10000
     ELSE IF xp <= current_threshold THEN 0
     ELSE IF xp >= next_threshold THEN 10000
     ELSE RoundHundredths(xp - current_threshold,
                          next_threshold - current_threshold, up)

\* ------------------------------------------------------------------------
\* Calls of the progression functions
\* ------------------------------------------------------------------------

\* XP values: the small ones and those next to every threshold up to the
\* one of level 101
XpValues ==
  (0..MaxXp) \cup { xp_for_level(l) + d : l \in 2..101, d \in -1..1 }

StatXpValues ==
  (0..MaxXp) \cup { stat_xp_for_level(l) + d : l \in 11..101, d \in -1..1 }

\* XP values before and after a grant
LevelUpXp ==
  { xp_for_level(l) + d : l \in 2..MaxJumpLevel, d \in -1..1 }
    \cup { 0, xp_for_level(100), xp_for_level(101) }

\* levels and XP values of the calls of level_progress
ProgressLevels == {0, 1, 2, 3, 99, 100}
ProgressXp ==
  { xp_for_level(l) + d : l \in 1..4 \cup 99..101, d \in {-1, 0, 1, 62} }

\* no call is under way
NoCall == call.op = "none"

\* the call under way returns
Return ==
  /\ ~NoCall
  /\ call' = [op |-> "none"]
  /\ UNCHANGED <<edges, character, stats, character_nodes, spent, resp,
                 inflight, activity_log>>

LevelFromXp ==
  /\ NoCall
  /\ \E xp \in XpValues, down \in BOOLEAN :
       call' = [op |-> "level_from_xp", xp |-> xp,
                level |-> level_from_xp(xp, down)]
  /\ UNCHANGED <<edges, character, stats, character_nodes, spent, resp,
                 inflight, activity_log>>

StatLevelFromXp ==
  /\ NoCall
  /\ \E xp \in StatXpValues, down \in BOOLEAN :
       call' = [op |-> "stat_level_from_xp", xp |-> xp,
                level |-> stat_level_from_xp(xp, down)]
  /\ UNCHANGED <<edges, character, stats, character_nodes, spent, resp,
                 inflight, activity_log>>

LevelProgress ==
  /\ NoCall
  /\ \E xp \in ProgressXp, level \in ProgressLevels, up \in BOOLEAN :
       call' = [op |-> "level_progress", xp |-> xp, level |-> level,
                result |-> level_progress(xp, level, up)]
  /\ UNCHANGED <<edges, character, stats, character_nodes, spent, resp,
                 inflight, activity_log>>

CalculateLevelUps ==
  /\ NoCall
  /\ \E old_xp \in LevelUpXp, new_xp \in LevelUpXp, down \in BOOLEAN :
       /\ old_xp <= new_xp
       /\ call' = [op |-> "calculate_level_ups", old_xp |-> old_xp,
                   new_xp |-> new_xp, down |-> down,
                   result |-> calculate_level_ups(old_xp, new_xp, down)]
  /\ UNCHANGED <<edges, character, stats, character_nodes, spent, resp,
                 inflight, activity_log>>

\* C12 as stated: the level returned for x brackets x between its own
\* threshold and the next one, for every x and for both curves.
C12_Original ==
  /\ call.op = "level_from_xp" =>
       /\ xp_for_level(call.level) <= call.xp
       /\ call.xp < xp_for_level(call.level + 1)
  /\ call.op = "stat_level_from_xp" =>
       /\ stat_xp_for_level(call.level) <= call.xp
       /\ call.xp < stat_xp_for_level(call.level + 1)

\* C12: for 0 <= x below the threshold of level 101 the level returned for x
\* brackets x between its own threshold and the next one; from that
\* threshold on the level is the cap 100; this for both curves, with
\* xp_for_level(2) = 100, xp_for_level(3) = 348, level_from_xp(347) = 2 and
\* level_from_xp(348) = 3.
C12_CurveInverse ==
  /\ call.op = "level_from_xp" =>
       /\ xp_for_level(call.level) <= call.xp
       /\ call.xp < xp_for_level(101) => call.xp < xp_for_level(call.level + 1)
       /\ call.xp >= xp_for_level(101) => call.level = 100
       /\ call.xp = 347 => call.level = 2
       /\ call.xp = 348 => call.level = 3
       /\ xp_for_level(2) = 100 /\ xp_for_level(3) = 348
  /\ call.op = "stat_level_from_xp" =>
       /\ stat_xp_for_level(call.level) <= call.xp
       /\ call.xp < stat_xp_for_level(101) =>
            call.xp < stat_xp_for_level(call.level + 1)
       /\ call.xp >= stat_xp_for_level(101) => call.level = 100

\* a call at a threshold the floating-point estimate falls short of
C12_Witness ==
  call.op = "level_from_xp" /\ call.xp = 348 /\ call.level = 3

\* the grant of the spec's example: from 0 XP to 5220 = ceil(100 * 9^1.8)
ExampleGrant ==
  call.op = "calculate_level_ups" /\ call.old_xp = 0 /\ call.new_xp = 5220

\* C13 as stated: the grant from 0 to 5220 XP returns levels 1 and 10 and
\* 3 stat points.
C13_Original ==
  ExampleGrant => call.result = << 1, 10, 3 >>

\* C13: the grant from 0 to 5220 XP returns old_level 1, new_level 10 and
\* 12 stat points, the sum over the levels 2..10, of which level 10 alone
\* contributes the milestone bonus 3.
C13_LevelTen ==
  ExampleGrant =>
    /\ call.result = << 1, 10, 12 >>
    /\ stat_points_for_level(10) = 3
    /\ call.result[3] - calculate_level_ups(0, 5218, call.down)[3] = 3

C13_Witness == ExampleGrant /\ call.result[2] = 10

\* the stat points of the levels lo..hi by the schedule 3 / 2 / 1
SchedulePoints(lo, hi) ==
  Cardinality(lo..hi) + Cardinality({ l \in lo..hi : l % 5 = 0 })
    + Cardinality({ l \in lo..hi : l % 10 = 0 })

\* C14: calculate_level_ups returns the stat points of every level in
\* old_level+1 .. new_level (3 for a multiple of 10, else 2 for a multiple
\* of 5, else 1), so the points of a grant old -> new are those of
\* old -> mid plus those of mid -> new for every mid between them.
C14_MultiLevelExact ==
  call.op = "calculate_level_ups" =>
    /\ call.result[3] = SchedulePoints(call.result[1] + 1, call.result[2])
    /\ \A mid_xp \in LevelUpXp :
         (call.old_xp <= mid_xp /\ mid_xp <= call.new_xp) =>
           call.result[3] =
             calculate_level_ups(call.old_xp, mid_xp, call.down)[3]
               + calculate_level_ups(mid_xp, call.new_xp, call.down)[3]

\* a grant that crosses three levels or more, one of them a multiple of 5
C14_Witness ==
  /\ call.op = "calculate_level_ups"
  /\ call.result[1] < 5 /\ call.result[2] > 5
  /\ call.result[3] > call.result[2] - call.result[1]


\* ------------------------------------------------------------------------
\* Activity XP resolver (ActivityService._calculate_xp, core/config.py)
\* ------------------------------------------------------------------------

\* rows of the module-level table ACTIVITY_XP_MAPPING (config.py, 58-110)
ACTIVITY_XP_MAPPING ==
  [gym_session |-> [STR |-> 75, STA |-> 30],
   learning_session |-> [INT |-> 60, WIS |-> 20],
   habit_completed |-> [WIS |-> 20],
   achievement_diamond |-> [LCK |-> 200]]

\* the fields of class Settings (config.py, lines 8-42); `settings` is an
\* instance of it (line 54)
SettingsFields ==
  {"app_name", "environment", "debug", "database_url", "mqtt_broker",
   "mqtt_port", "mqtt_topic_activities", "mqtt_topic_events",
   "character_level_base", "character_level_multiplier", "stat_level_base",
   "stat_level_multiplier", "starting_stat_value", "starting_stat_points",
   "starting_respec_tokens", "core_stats"}

ActivityTypes == DOMAIN ACTIVITY_XP_MAPPING \cup {"dog_walk"}

\* activity_data: each key is absent (<< >>) or present (<< value >>);
\* multiplier and quality are in tenths
ActivityData ==
  [multiplier : {<< >>, <<20>>},
   duration_minutes : {<< >>, <<0>>, <<30>>, <<45>>, <<60>>, <<90>>,
                       <<120>>, <<150>>},
   intensity : {<< >>, <<"low">>, <<"normal">>, <<"high">>, <<"extreme">>,
                <<"turbo">>},
   quality : {<< >>, <<5>>, <<15>>}]

\* activity_data.get(key, default)
Get(activity_data, key, default) ==
  IF activity_data[key] = << >> THEN default ELSE activity_data[key][1]

\* the values x <= 400 for which the floating-point product x * 0.7 lies
\* below the whole number 7x/10, so that int(x * 0.7) is one less
LowShort == {90, 170, 180, 330, 340, 350, 360}

\* intensity_mults.get(intensity, 1.0), in tenths (lines 178-184)
intensity_mults(intensity) ==
  IF intensity = "low" THEN 7
  ELSE IF intensity = "high" THEN 13
  ELSE IF intensity = "extreme" THEN 15
  ELSE 10

\* lines 162-196: the four stages, each truncated by int()
ApplyModifiers(base_xp, activity_data) ==
  LET multiplier == Get(activity_data, "multiplier", 10)
      duration == Get(activity_data, "duration_minutes", 0)
      intensity == Get(activity_data, "intensity", "normal")
      quality == Get(activity_data, "quality", 10)
      int_mult == intensity_mults(intensity)
      s1 == [stat \in DOMAIN base_xp |->
               IF duration > 0
               THEN (base_xp[stat] * Min(duration, 120)) \div 60
               ELSE base_xp[stat]]
      s2 == [stat \in DOMAIN base_xp |->
               IF int_mult = 7 /\ s1[stat] \in LowShort
               THEN (s1[stat] * 7) \div 10 - 1
               ELSE (s1[stat] * int_mult) \div 10]
      s3 == [stat \in DOMAIN base_xp |-> (s2[stat] * quality) \div 10]
  IN [stat \in DOMAIN base_xp |-> (s3[stat] * multiplier) \div 10]

\* _calculate_xp (lines 151-196): line 156 reads the attribute
\* ACTIVITY_XP_MAPPING of the Settings instance before anything else
_calculate_xp(activity_type, activity_data) ==
  IF "ACTIVITY_XP_MAPPING" \notin SettingsFields
  THEN [raised |-> TRUE, error |-> "AttributeError"]
  ELSE IF activity_type \notin DOMAIN ACTIVITY_XP_MAPPING
  THEN [raised |-> FALSE, xp |-> [stat \in {"LCK"} |-> 5]]
  ELSE [raised |-> FALSE,
        xp |-> ApplyModifiers(ACTIVITY_XP_MAPPING[activity_type],
                              activity_data)]

CalculateXp ==
  /\ NoCall
  /\ \E activity_type \in ActivityTypes, activity_data \in ActivityData :
       call' = [op |-> "_calculate_xp", activity_type |-> activity_type,
                activity_data |-> activity_data,
                result |-> _calculate_xp(activity_type, activity_data)]
  /\ UNCHANGED <<edges, character, stats, character_nodes, spent, resp,
                 inflight, activity_log>>

\* C16: resolving an activity whose type is not in the base table never
\* raises and returns the non-empty grant {LCK: 5}, whatever the data map.
C16_UnknownTypeGrant ==
  (call.op = "_calculate_xp"
     /\ call.activity_type \notin DOMAIN ACTIVITY_XP_MAPPING) =>
    /\ ~call.result.raised
    /\ call.result.xp = [stat \in {"LCK"} |-> 5]

\* the grant of the claim: duration factor (d / 60, at most 2), intensity
\* factor, quality and global multiplier, truncated after each stage
StagedGrant(base, activity_data) ==
  LET duration == Get(activity_data, "duration_minutes", 0)
      t1 == IF duration > 0 THEN (base * Min(duration, 120)) \div 60 ELSE base
      t2 == (t1 * intensity_mults(Get(activity_data, "intensity", "normal")))
              \div 10
      t3 == (t2 * Get(activity_data, "quality", 10)) \div 10
  IN (t3 * Get(activity_data, "multiplier", 10)) \div 10

\* C17: for a known activity type the grant of each attribute is the base
\* value taken through the duration, intensity, quality and global factors
\* in this order, truncated to an integer after each stage.
C17_StagedTruncation ==
  (call.op = "_calculate_xp"
     /\ call.activity_type \in DOMAIN ACTIVITY_XP_MAPPING) =>
    /\ ~call.result.raised
    /\ call.result.xp =
         [stat \in DOMAIN ACTIVITY_XP_MAPPING[call.activity_type] |->
            StagedGrant(ACTIVITY_XP_MAPPING[call.activity_type][stat],
                        call.activity_data)]

\* C18: with no other modifier, a duration of 60 minutes or more doubles
\* the base grant and a shorter duration d > 0 scales it by d / 60.
C18_DurationCap ==
  (call.op = "_calculate_xp"
     /\ call.activity_type \in DOMAIN ACTIVITY_XP_MAPPING
     /\ call.activity_data.multiplier = << >>
     /\ call.activity_data.intensity = << >>
     /\ call.activity_data.quality = << >>
     /\ Get(call.activity_data, "duration_minutes", 0) > 0) =>
    /\ ~call.result.raised
    /\ \A stat \in DOMAIN ACTIVITY_XP_MAPPING[call.activity_type] :
         LET base == ACTIVITY_XP_MAPPING[call.activity_type][stat]
             duration == call.activity_data.duration_minutes[1]
         IN call.result.xp[stat] =
              IF duration >= 60 THEN 2 * base
              ELSE (base * duration) \div 60

\* ------------------------------------------------------------------------
\* Formula evaluator (ProgressionService.evaluate_formula,
\* CharacterService.calculate_derived_stats); a string is the sequence of
\* its characters
\* ------------------------------------------------------------------------

\* rows of derived_stats: code -> formula, is_active
DerivedStatDB ==
  [power |-> [formula |-> <<"S", "T", "R", "*", "2", "+", "I", "N", "T">>, is_active |-> TRUE],
   focus |-> [formula |-> <<"(", "W", "I", "S", "+", "I", "N", "T", ")", "*", "3">>, is_active |-> TRUE],
   spaced |-> [formula |-> <<"S", "T", "A", " ", "+", " ", "C", "H", "A">>, is_active |-> TRUE],
   semi |-> [formula |-> <<"S", "T", "R", ";", "I", "N", "T">>, is_active |-> TRUE],
   glued |-> [formula |-> <<"S", "T", "R", "I", "N", "T">>, is_active |-> TRUE],
   trick |-> [formula |-> <<"T", "R", "I", "C", "K">>, is_active |-> TRUE],
   evil |-> [formula |-> <<"E", "V", "A", "L">>, is_active |-> TRUE],
   lower |-> [formula |-> <<"s", "t", "r">>, is_active |-> TRUE],
   blank |-> [formula |-> << >>, is_active |-> TRUE],
   luck |-> [formula |-> <<"L", "C", "K">>, is_active |-> FALSE]]

Digits == <<"0", "1", "2", "3", "4", "5", "6", "7", "8", "9">>
DigitChars == Range(Digits)
DigitVal(c) == (CHOOSE i \in 1..10 : Digits[i] = c) - 1

\* the letters of the character class of safe_pattern (line 92)
SafeLetters == {"S", "T", "R", "I", "N", "W", "A", "C", "H", "L", "K"}

\* Variant: a character class that also admits the semicolon
SafeCharsSemicolon ==
  {" ", ".", "+", "-", "*", "/", "(", ")", ";"} \cup DigitChars \cup SafeLetters

\* the character class of safe_pattern:  \s \d . + - * / ( ) and letters
SafeChars ==
  {" ", ".", "+", "-", "*", "/", "(", ")"} \cup DigitChars \cup SafeLetters

\* re.match(safe_pattern, formula) (lines 92-93): one character or more,
\* all of the class
SafeMatch(formula) ==
  Len(formula) > 0 /\ \A i \in 1..Len(formula) : formula[i] \in SafeChars

\* the characters of the six codes
CodeChars ==
  [STR |-> <<"S", "T", "R">>, INT |-> <<"I", "N", "T">>,
   WIS |-> <<"W", "I", "S">>, STA |-> <<"S", "T", "A">>,
   CHA |-> <<"C", "H", "A">>, LCK |-> <<"L", "C", "K">>]

\* the order of stats.items(): the order of CORE_STATS, in which
\* create_character inserts the rows
StatOrder == <<"STR", "INT", "WIS", "STA", "CHA", "LCK">>

\* str(value) for value >= 0
RECURSIVE Str(_)
Str(n) == IF n < 10 THEN << Digits[n + 1] >>
          ELSE Str(n \div 10) \o << Digits[(n % 10) + 1] >>

\* expr.replace(pat, rep): the occurrences from the left, not overlapping
RECURSIVE Replace(_, _, _)
Replace(expr, pat, rep) ==
  IF Len(expr) < Len(pat) THEN expr
  ELSE IF SubSeq(expr, 1, Len(pat)) = pat
       THEN rep \o Replace(SubSeq(expr, Len(pat) + 1, Len(expr)), pat, rep)
       ELSE << expr[1] >> \o Replace(Tail(expr), pat, rep)

\* for code, value in stats.items(): expr = expr.replace(code, str(value))
\* (lines 97-99)
RECURSIVE ReplaceCodes(_, _, _)
ReplaceCodes(expr, stat_totals, k) ==
  IF k > Len(StatOrder) THEN expr
  ELSE ReplaceCodes(Replace(expr, CodeChars[StatOrder[k]],
                            Str(stat_totals[StatOrder[k]])),
                    stat_totals, k + 1)

\* the length of the longest prefix of e made of characters of the set cs
RECURSIVE RunLen(_, _)
RunLen(e, cs) ==
  IF e = << >> \/ e[1] \notin cs THEN 0 ELSE 1 + RunLen(Tail(e), cs)

\* the letters of the rows of DerivedStatDB
Letters == SafeLetters \cup {"E", "V", "s", "t", "r"}

\* the length of the identifier e starts with: a letter, then letters and
\* digits
NameLen(e) == 1 + RunLen(Tail(e), Letters \cup DigitChars)

RECURSIVE NumVal(_)
NumVal(ds) ==
  IF ds = << >> THEN 0
  ELSE 10 * NumVal(SubSeq(ds, 1, Len(ds) - 1)) + DigitVal(ds[Len(ds)])

\* the tokens of a Python expression made of whole numbers, names, + * ( )
\* and blanks, the expressions the rows of DerivedStatDB lead to; any other
\* character gives the token "other"
RECURSIVE Tokens(_)
Tokens(e) ==
  IF e = << >> THEN << >>
  ELSE IF e[1] = " " THEN Tokens(Tail(e))
  ELSE IF e[1] \in DigitChars
       THEN LET n == RunLen(e, DigitChars)
            IN << [t |-> IF n > 1 /\ e[1] = "0" THEN "other" ELSE "num",
                   n |-> NumVal(SubSeq(e, 1, n))] >>
                 \o Tokens(SubSeq(e, n + 1, Len(e)))
  ELSE IF e[1] \in Letters
       THEN << [t |-> "name", n |-> 0] >>
              \o Tokens(SubSeq(e, NameLen(e) + 1, Len(e)))
  ELSE IF e[1] \in {"+", "*", "(", ")"}
       THEN << [t |-> e[1], n |-> 0] >> \o Tokens(Tail(e))
  ELSE << [t |-> "other", n |-> 0] >> \o Tokens(Tail(e))

\* the expression cannot be evaluated (SyntaxError, NameError)
Fails == [ok |-> FALSE, v |-> 0, rest |-> << >>]

RECURSIVE ParseExpr(_), ParseTerm(_), ParseFactor(_), ExprRest(_, _), TermRest(_, _)

\* a number or an expression in parentheses; a name is not defined
\* ({"__builtins__": {}}, line 104)
ParseFactor(ts) ==
  IF ts = << >> THEN Fails
  ELSE IF ts[1].t = "num" THEN [ok |-> TRUE, v |-> ts[1].n, rest |-> Tail(ts)]
  ELSE IF ts[1].t = "("
       THEN LET r == ParseExpr(Tail(ts))
            IN IF r.ok /\ r.rest # << >> /\ r.rest[1].t = ")"
               THEN [ok |-> TRUE, v |-> r.v, rest |-> Tail(r.rest)]
               ELSE Fails
  ELSE Fails

TermRest(v, ts) ==
  IF ts # << >> /\ ts[1].t = "*"
  THEN LET f == ParseFactor(Tail(ts))
       IN IF f.ok THEN TermRest(v * f.v, f.rest) ELSE Fails
  ELSE [ok |-> TRUE, v |-> v, rest |-> ts]

ParseTerm(ts) ==
  LET f == ParseFactor(ts) IN IF f.ok THEN TermRest(f.v, f.rest) ELSE Fails

ExprRest(v, ts) ==
  IF ts # << >> /\ ts[1].t = "+"
  THEN LET f == ParseTerm(Tail(ts))
       IN IF f.ok THEN ExprRest(v + f.v, f.rest) ELSE Fails
  ELSE [ok |-> TRUE, v |-> v, rest |-> ts]

ParseExpr(ts) ==
  LET f == ParseTerm(ts) IN IF f.ok THEN ExprRest(f.v, f.rest) ELSE Fails

\* eval(expr, allowed_names, {}) (line 105)
Eval(expr) ==
  LET r == ParseExpr(Tokens(expr))
  IN IF r.ok /\ r.rest = << >> THEN [ok |-> TRUE, v |-> r.v] ELSE [ok |-> FALSE, v |-> 0]

\* evaluate_formula (lines 83-108); executed: eval was called
evaluate_formula(formula, stat_totals) ==
  IF ~SafeMatch(formula)
  THEN [raised |-> TRUE, executed |-> FALSE]
  ELSE LET r == Eval(ReplaceCodes(formula, stat_totals, 1))
       IN IF r.ok THEN [raised |-> FALSE, executed |-> TRUE, value |-> r.v]
          ELSE [raised |-> TRUE, executed |-> TRUE]

\* calculate_derived_stats (character.py, lines 200-216): code -> the
\* value, 0.0 where evaluate_formula raised (try / except Exception), and
\* whether eval was called
calculate_derived_stats(stat_totals) ==
  [d \in { c \in DOMAIN DerivedStatDB : DerivedStatDB[c].is_active } |->
     LET r == evaluate_formula(DerivedStatDB[d].formula, stat_totals)
     IN [value |-> IF r.raised THEN 0 ELSE r.value, executed |-> r.executed]]

\* base_value + allocated_bonus of the six attributes
StatTotals == [CORE_STATS -> {10, 25}]

CalculateDerivedStats ==
  /\ NoCall
  /\ \E stat_totals \in StatTotals :
       \E r \in { calculate_derived_stats(stat_totals) } :
         call' = [op |-> "calculate_derived_stats", stats |-> stat_totals,
                  derived |-> [d \in DOMAIN r |-> r[d].value],
                  executed |-> [d \in DOMAIN r |-> r[d].executed]]
  /\ UNCHANGED <<edges, character, stats, character_nodes, spent, resp,
                 inflight, activity_log>>

\* the letters the six codes are written with
CodeLetters == UNION { Range(CodeChars[c]) : c \in DOMAIN CodeChars }

\* the maximal runs of letters of a formula
RECURSIVE LetterRuns(_)
LetterRuns(e) ==
  IF e = << >> THEN {}
  ELSE IF e[1] \in Letters
       THEN LET n == RunLen(e, Letters)
            IN { SubSeq(e, 1, n) } \cup LetterRuns(SubSeq(e, n + 1, Len(e)))
       ELSE LetterRuns(Tail(e))

\* the formula of the row d
FormulaOf(d) == DerivedStatDB[d].formula

\* the formulas C20 is about: a semicolon, or a run of letters that is not
\* one of the six codes
NotOnlyCodes(d) ==
  \/ ";" \in Range(FormulaOf(d))
  \/ \E run \in LetterRuns(FormulaOf(d)) : run \notin Range(CodeChars)

\* C20 as stated: such a formula is never passed to eval and its value is
\* the default 0.0.
C20_Original ==
  call.op = "calculate_derived_stats" =>
    \A d \in DOMAIN call.derived :
      NotOnlyCodes(d) => ~call.executed[d] /\ call.derived[d] = 0

\* C20: a formula that contains a semicolon or a letter that occurs in none
\* of the six codes is never passed to eval and its value is the default
\* 0.0; a formula of admitted characters whose letters do not all spell
\* codes is passed to eval and gets 0.0 when a letter is left after the
\* codes are replaced; no error reaches the caller, every active formula has
\* a value and the other formulas of the read are evaluated.
C20_FormulaRejected ==
  call.op = "calculate_derived_stats" =>
    /\ DOMAIN call.derived =
         { c \in DOMAIN DerivedStatDB : DerivedStatDB[c].is_active }
    /\ \A d \in DOMAIN call.derived :
         /\ (\/ ";" \in Range(FormulaOf(d))
             \/ Range(FormulaOf(d)) \cap (Letters \ CodeLetters) # {})
              => ~call.executed[d] /\ call.derived[d] = 0
         /\ (call.executed[d]
               /\ Range(ReplaceCodes(FormulaOf(d), call.stats, 1)) \cap Letters # {})
              => call.derived[d] = 0
    /\ call.derived.power = call.stats["STR"] * 2 + call.stats["INT"]
    /\ call.derived.focus = (call.stats["WIS"] + call.stats["INT"]) * 3
    /\ call.derived.spaced = call.stats["STA"] + call.stats["CHA"]

\* a read with a rejected formula, a formula that fails in eval and adjacent
\* codes that evaluate to their digits
C20_Witness ==
  /\ call.op = "calculate_derived_stats"
  /\ ~call.executed.semi /\ ~call.executed.evil
  /\ call.executed.trick /\ call.derived.trick = 0
  /\ call.derived.glued = 1025

\* C24: level_progress returns 100.0 whenever the thresholds are degenerate,
\* which is the case at level 100 with any xp at or above the threshold of
\* level 100; every result lies between 0 and 100.
C24_LevelProgress ==
  call.op = "level_progress" =>
    /\ xp_for_level(call.level + 1) <= xp_for_level(call.level)
         => call.result = 10000
    /\ (call.level = 100 /\ call.xp >= xp_for_level(100))
         => call.result = 10000
    /\ call.result \in 0..10000

\* ------------------------------------------------------------------------
\* The functions called on their own
\* ------------------------------------------------------------------------
FnInit ==
  /\ edges \in EdgeConfigs
  /\ character = FreshDB(0, 1).character
  /\ stats = FreshDB(0, 1).stats
  /\ character_nodes = {}
  /\ spent = 0
  /\ resp = [op |-> "none"]
  /\ req = << >>
  /\ lock = 0
  /\ start = [stat_points |-> 0, character_nodes |-> {}]
  /\ activity_log = << >>
  /\ call = [op |-> "none"]

FnNext ==
  \/ LevelFromXp \/ StatLevelFromXp \/ CalculateLevelUps \/ LevelProgress
  \/ CalculateXp \/ CalculateDerivedStats \/ Return

SpecFn == FnInit /\ [][FnNext]_vars

\* ------------------------------------------------------------------------
\* Activity logging (services/activity.py, log_activity)
\* ------------------------------------------------------------------------
UserId == "user"
UserIds == {UserId, "guest"}

\* select(CharacterDB).where(user_id == ...) (lines 28-31): the one
\* character belongs to UserId
CharacterOf(user_id) == IF user_id = UserId THEN << CharId >> ELSE << >>

\* custom_xp of ActivityCreate: None (<< >>) or a map from codes to amounts
EmptyMap == [stat \in {} |-> 0]
CustomXpMaps ==
  { [STR |-> 150, INT |-> 40], [STR |-> -3, LCK |-> 0, WIS |-> 60],
    [XXX |-> 400000], [STA |-> 43500], EmptyMap }
CustomXp == { << >> } \cup { << m >> : m \in CustomXpMaps }

NoData ==
  [multiplier |-> << >>, duration_minutes |-> << >>, intensity |-> << >>,
   quality |-> << >>]

\* activity_type and activity_data of the requests
ActivityInputs ==
  { << "gym_session", NoData >>,
    << "dog_walk", [NoData EXCEPT !.duration_minutes = << 60 >>,
                                  !.multiplier = << 20 >>] >> }

ActivityCreate ==
  { [user_id |-> u, activity_type |-> i[1], activity_data |-> i[2],
     custom_xp |-> c] : u \in UserIds, i \in ActivityInputs, c \in CustomXp }

\* Variant: the supplied map is used whenever it is not None
XpGrantsNotNone(data) ==
  IF data.custom_xp # << >>
  THEN [raised |-> FALSE, xp |-> data.custom_xp[1]]
  ELSE _calculate_xp(data.activity_type, data.activity_data)

\* lines 36-39: "if data.custom_xp:" is false for None and for an empty map
XpGrants(data) ==
  IF data.custom_xp # << >> /\ DOMAIN data.custom_xp[1] # {}
  THEN [raised |-> FALSE, xp |-> data.custom_xp[1]]
  ELSE _calculate_xp(data.activity_type, data.activity_data)

\* Variant: the loop without "if xp <= 0: continue"
GrantingAll(xp_grants) == DOMAIN xp_grants

\* the entries of the loop that pass "if xp <= 0: continue" (lines 57-59)
Granting(xp_grants) == { c \in DOMAIN xp_grants : xp_grants[c] > 0 }

\* total_xp_gained (lines 55, 61)
RECURSIVE SumGrants(_, _)
SumGrants(xp_grants, codes) ==
  IF codes = {} THEN 0
  ELSE LET c == CHOOSE d \in codes : TRUE
       IN xp_grants[c] + SumGrants(xp_grants, codes \ {c})

\* Variant: a level-up adds one to base_value
GrantStatIncrement(stat, xp, down) ==
  LET ups == calculate_stat_level_ups(stat.stat_xp, stat.stat_xp + xp, down)
  IN [stat EXCEPT !.stat_xp = @ + xp,
                  !.base_value = IF ups[3] THEN @ + 1 ELSE @]

\* Variant: the stat row is written anew, its allocated_bonus at 0
GrantStatFresh(stat, xp, down) ==
  LET ups == calculate_stat_level_ups(stat.stat_xp, stat.stat_xp + xp, down)
  IN [base_value |-> IF ups[3] THEN ups[2] ELSE stat.base_value,
      stat_xp |-> stat.stat_xp + xp, allocated_bonus |-> 0]

\* lines 71-81: stat.stat_xp += xp; base_value = new_level if leveled
GrantStat(stat, xp, down) ==
  LET ups == calculate_stat_level_ups(stat.stat_xp, stat.stat_xp + xp, down)
  IN [stat EXCEPT !.stat_xp = @ + xp,
                  !.base_value = IF ups[3] THEN ups[2] ELSE @]

\* Variant: a level-up adds one to character.level
GrantCharacterIncrement(chr, total_xp_gained, down) ==
  LET ups == calculate_level_ups(chr.total_xp,
                                 chr.total_xp + total_xp_gained, down)
  IN IF ups[2] > ups[1]
     THEN [chr EXCEPT !.total_xp = @ + total_xp_gained,
                      !.level = @ + 1,
                      !.stat_points = @ + ups[3]]
     ELSE [chr EXCEPT !.total_xp = @ + total_xp_gained]

\* Variant: a level-up grants the stat points of the level reached only
GrantCharacterLast(chr, total_xp_gained, down) ==
  LET ups == calculate_level_ups(chr.total_xp,
                                 chr.total_xp + total_xp_gained, down)
  IN IF ups[2] > ups[1]
     THEN [chr EXCEPT !.total_xp = @ + total_xp_gained,
                      !.level = ups[2],
                      !.stat_points = @ + stat_points_for_level(ups[2])]
     ELSE [chr EXCEPT !.total_xp = @ + total_xp_gained]

\* lines 83-94: character.total_xp += total_xp_gained; level and
\* stat_points change only when new_level > old_level
GrantCharacter(chr, total_xp_gained, down) ==
  LET ups == calculate_level_ups(chr.total_xp,
                                 chr.total_xp + total_xp_gained, down)
  IN IF ups[2] > ups[1]
     THEN [chr EXCEPT !.total_xp = @ + total_xp_gained,
                      !.level = ups[2],
                      !.stat_points = @ + ups[3]]
     ELSE [chr EXCEPT !.total_xp = @ + total_xp_gained]

\* log_activity (lines 25-113) on the rows db and the log rows log
LogActivityOn(db, log, data, down) ==
  IF CharacterOf(data.user_id) = << >>
  THEN [db |-> db, activity_log |-> log,
        resp |-> [op |-> "log_activity", data |-> data, raised |-> TRUE,
                  error |-> "ValueError"]]
  ELSE LET grants == XpGrants(data) IN
  IF grants.raised
  THEN [db |-> db, activity_log |-> log,
        resp |-> [op |-> "log_activity", data |-> data, raised |-> TRUE,
                  error |-> grants.error]]
  ELSE
    LET xp_grants == grants.xp
        found == Granting(xp_grants) \cap DOMAIN db.stats
        total_xp_gained == SumGrants(xp_grants, Granting(xp_grants))
        new_stats == [c \in DOMAIN db.stats |->
                        IF c \in found
                        THEN GrantStat(db.stats[c], xp_grants[c], down)
                        ELSE db.stats[c]]
        stat_level_ups ==
          { c \in found : calculate_stat_level_ups(
                             db.stats[c].stat_xp,
                             db.stats[c].stat_xp + xp_grants[c], down)[3] }
        old_total_xp == db.character.total_xp
        ups == calculate_level_ups(old_total_xp,
                                   old_total_xp + total_xp_gained, down)
        character_level_up == ups[2] > ups[1]
    IN [db |-> [db EXCEPT
                  !.stats = new_stats,
                  !.character = GrantCharacter(@, total_xp_gained, down)],
        activity_log |->
          Append(log, [character_id |-> CharacterOf(data.user_id)[1],
                       activity_type |-> data.activity_type,
                       activity_data |-> data.activity_data,
                       xp_grants |-> xp_grants]),
        resp |-> [op |-> "log_activity", data |-> data, raised |-> FALSE,
                  success |-> TRUE, xp_granted |-> xp_grants,
                  stat_level_ups |-> stat_level_ups,
                  character_level_up |-> character_level_up,
                  new_level |-> IF character_level_up THEN << ups[2] >>
                                ELSE << >>]]

\* the stat_xp a request would lead to stays within MaxStatXp
WithinStatXp(data) ==
  \A c \in CORE_STATS :
    (data.custom_xp # << >> /\ c \in DOMAIN data.custom_xp[1])
      => stats[c].stat_xp + data.custom_xp[1][c] <= MaxStatXp

\* the total_xp a request would lead to stays within MaxTotalXp
WithinTotalXp(data) ==
  data.custom_xp # << >> =>
    character.total_xp
      + SumGrants(data.custom_xp[1], Granting(data.custom_xp[1]))
      <= MaxTotalXp

\* POST /activities -> ActivityService.log_activity
log_activity(data, down) ==
  /\ Idle
  /\ Len(activity_log) < MaxLog
  /\ WithinStatXp(data)
  /\ WithinTotalXp(data)
  /\ \E r \in { LogActivityOn(DB, activity_log, data, down) } :
       /\ character' = r.db.character
       /\ stats' = r.db.stats
       /\ activity_log' = r.activity_log
       /\ resp' = r.resp
  /\ UNCHANGED <<edges, character_nodes, spent, inflight, call>>

LogActivity == \E data \in ActivityCreate, down \in BOOLEAN :
                 log_activity(data, down)

\* Allocate with one node code
AllocateOne == \E code \in ActiveCodes : allocate_nodes(CharId, << code >>)

\* a newly created character (create_character, lines 35-55)
ActInit == FnInit

ActNext == LogActivity \/ AllocateOne \/ Respec \/ Deliver

SpecAct == ActInit /\ [][ActNext]_vars

\* every attribute's base_value is the level of its stat_xp
BaseValueIsLevel ==
  \A c \in CORE_STATS, down \in BOOLEAN :
    stats[c].base_value = stat_level_from_xp(stats[c].stat_xp, down)

\* C15: starting from a newly created character, after any sequence of
\* log_activity, Allocate and Respec every attribute has
\* base_value = stat_level_from_xp(stat_xp), and no step lowers a stat_xp.
C15_AttributeInvariant ==
  /\ BaseValueIsLevel
  /\ [][\A c \in CORE_STATS :
          /\ \A down \in BOOLEAN :
               stats'[c].base_value =
                 stat_level_from_xp(stats'[c].stat_xp, down)
          /\ stats'[c].stat_xp >= stats[c].stat_xp]_vars

\* an attribute has risen two levels in one grant, a node bought with the
\* point of the character level was allocated and then refunded
C15_Witness ==
  /\ resp.op = "respec" /\ resp.success /\ resp.nodes_removed > 0
  /\ stats["STR"].stat_xp = 150 /\ stats["STR"].base_value = 12
  /\ Len(activity_log) > 0

\* a log_activity request of the user with a character, carrying a map
LogStep == Idle /\ resp'.op = "log_activity"
CustomStep ==
  /\ LogStep
  /\ resp'.data.user_id = UserId
  /\ resp'.data.custom_xp # << >>

\* the stat_xp of attribute c after amount is added
Gained(c, amount) == stats'[c].stat_xp = stats[c].stat_xp + amount

\* C19 as stated: every call that carries a map skips the resolver, the log
\* snapshot and xp_granted equal the map and each attribute's stat_xp grows
\* by exactly its amount in the map.
C19_Original ==
  [][CustomStep =>
       LET m == resp'.data.custom_xp[1] IN
       /\ ~resp'.raised
       /\ resp'.xp_granted = m
       /\ Len(activity_log') = Len(activity_log) + 1
       /\ activity_log'[Len(activity_log')].xp_grants = m
       /\ \A c \in CORE_STATS :
            Gained(c, IF c \in DOMAIN m THEN m[c] ELSE 0)]_vars

\* C19: a call that carries a non-empty map skips the resolver: the log
\* snapshot and xp_granted equal the map, each of the six attributes with a
\* positive amount gains exactly it, the other stat_xp stay, and the result
\* is the same for every activity type and data map. An empty map counts as
\* no map: the resolver is called.
C19_CustomOverride ==
  [][CustomStep =>
       LET m == resp'.data.custom_xp[1] IN
       IF DOMAIN m = {}
       THEN /\ resp'.raised
            /\ resp'.error =
                 _calculate_xp(resp'.data.activity_type,
                               resp'.data.activity_data).error
            /\ UNCHANGED <<character, stats, activity_log>>
       ELSE /\ ~resp'.raised
            /\ resp'.xp_granted = m
            /\ Len(activity_log') = Len(activity_log) + 1
            /\ activity_log'[Len(activity_log')].xp_grants = m
            /\ \A c \in CORE_STATS :
                 Gained(c, IF c \in DOMAIN m /\ m[c] > 0 THEN m[c] ELSE 0)
            /\ \A i \in ActivityInputs, down \in BOOLEAN :
                 LogActivityOn(DB, activity_log,
                               [resp'.data EXCEPT !.activity_type = i[1],
                                                  !.activity_data = i[2]],
                               down).db = DB']_vars

\* a map with a non-positive amount was logged for an activity with
\* modifiers: the snapshot keeps the map, only WIS has gained
C19_Witness ==
  /\ resp.op = "log_activity" /\ ~resp.raised
  /\ resp.data.activity_type = "dog_walk"
  /\ resp.xp_granted = [STR |-> -3, LCK |-> 0, WIS |-> 60]
  /\ activity_log[Len(activity_log)].xp_grants = resp.xp_granted
  /\ stats["WIS"].stat_xp = 60 /\ stats["STR"].stat_xp = 0

\* ------------------------------------------------------------------------
\* Batch logging (services/activity.py, log_batch)
\* ------------------------------------------------------------------------

\* the items of the batches: a user without a character, two items with a
\* map and one the resolver has to resolve
BatchItems ==
  { d \in ActivityCreate :
      /\ d.activity_type = "gym_session"
      /\ \/ d.user_id = "guest" /\ d.custom_xp = << [STR |-> 150, INT |-> 40] >>
         \/ d.user_id = UserId
              /\ d.custom_xp \in { << >>, << [STR |-> 150, INT |-> 40] >>,
                                   << [STR |-> -3, LCK |-> 0, WIS |-> 60] >> } }

\* total_xp[stat] = total_xp.get(stat, 0) + xp (lines 131-133)
RECURSIVE AccumulateXp(_, _)
AccumulateXp(responses, stat) ==
  IF responses = << >> THEN 0
  ELSE (IF stat \in DOMAIN Head(responses).xp_granted
        THEN Head(responses).xp_granted[stat] ELSE 0)
       + AccumulateXp(Tail(responses), stat)

\* one round of the loop (lines 127-141): the item's response is kept when
\* log_activity returns, "except Exception: continue" when it raises
LogBatchItem(S, data, down) ==
  CHOOSE out \in
    { IF r.resp.raised THEN S
      ELSE [db |-> r.db, activity_log |-> r.activity_log,
            responses |-> Append(S.responses, r.resp)] :
        r \in { LogActivityOn(S.db, S.activity_log, data, down) } } : TRUE

\* Variant: the loop ends after its first item
LogBatchFirstOnly(S, activities, k, down) ==
  IF k > Len(activities) THEN S ELSE LogBatchItem(S, activities[k], down)

\* the loop of log_batch (lines 126-141) from item k on
RECURSIVE LogBatchLoop(_, _, _, _)
LogBatchLoop(S, activities, k, down) ==
  IF k > Len(activities) THEN S
  ELSE LogBatchLoop(LogBatchItem(S, activities[k], down), activities,
                    k + 1, down)

\* ActivityBatchResponse (lines 143-149) of the responses gathered
BatchResponse(S, activities) ==
  [db |-> S.db, activity_log |-> S.activity_log,
   resp |-> [op |-> "log_batch", activities |-> activities,
             success |-> Len(S.responses) > 0,
             processed |-> Len(S.responses),
             total_xp |->
               [stat \in UNION { DOMAIN S.responses[i].xp_granted :
                                   i \in 1..Len(S.responses) } |->
                  AccumulateXp(S.responses, stat)],
             stat_level_ups |->
               UNION { S.responses[i].stat_level_ups :
                         i \in 1..Len(S.responses) },
             character_level_up |->
               \E i \in 1..Len(S.responses) :
                 S.responses[i].character_level_up]]

\* log_batch (lines 117-149) on the rows db and the log rows log
LogBatchOn(db, log, activities, down) ==
  CHOOSE out \in
    { BatchResponse(S, activities) :
        S \in { LogBatchLoop([db |-> db, activity_log |-> log,
                              responses |-> << >>],
                             activities, 1, down) } } : TRUE

\* POST /activities/batch -> ActivityService.log_batch
log_batch(activities, down) ==
  /\ Idle
  /\ Len(activity_log) + Len(activities) <= MaxLog
  /\ \E r \in { LogBatchOn(DB, activity_log, activities, down) } :
       /\ character' = r.db.character
       /\ stats' = r.db.stats
       /\ activity_log' = r.activity_log
       /\ resp' = r.resp
  /\ UNCHANGED <<edges, character_nodes, spent, inflight, call>>

LogBatch == \E activities \in BoundedSeq(BatchItems, MaxBatch),
               down \in BOOLEAN : log_batch(activities, down)

BatchNext == LogBatch \/ Deliver

SpecBatch == ActInit /\ [][BatchNext]_vars

\* an item log_activity applies: its user has a character and it carries a
\* non-empty map
Applicable(data) ==
  /\ data.user_id = UserId
  /\ data.custom_xp # << >>
  /\ DOMAIN data.custom_xp[1] # {}

\* the items applied one after the other
RECURSIVE ApplyAll(_, _, _)
ApplyAll(db, log, items) ==
  IF items = << >> THEN [db |-> db, activity_log |-> log]
  ELSE LET r == LogActivityOn(db, log, Head(items), TRUE)
       IN ApplyAll(r.db, r.activity_log, Tail(items))

BatchStep == Idle /\ resp'.op = "log_batch"

\* C21: in every batch the items that fail change nothing and do not end
\* the batch: the state after the batch is the state after applying the
\* valid items in their order, processed is the number of those items and
\* success is true exactly when processed > 0.
C21_BatchPartialSuccess ==
  [][BatchStep =>
       LET applied == SelectSeq(resp'.activities, Applicable)
           after == ApplyAll(DB, activity_log, applied)
       IN /\ DB' = after.db
          /\ activity_log' = after.activity_log
          /\ resp'.processed = Len(applied)
          /\ resp'.success = (resp'.processed > 0)
          /\ UNCHANGED character_nodes]_vars

\* a batch whose first item is for a user without a character and whose
\* second item was applied
C21_Witness ==
  /\ resp.op = "log_batch" /\ Len(resp.activities) = 2
  /\ resp.activities[1].user_id = "guest"
  /\ resp.processed = 1 /\ resp.success
  /\ stats["STR"].stat_xp = 150 /\ Len(activity_log) = 1

\* C22: a log_activity call for a user who has no character creates the
\* character and grants the XP (here for calls that carry their own grant
\* map, which need no resolver).
C22_CreatedOnFirstActivity ==
  (/\ resp.op = "log_activity"
   /\ CharacterOf(resp.data.user_id) = << >>
   /\ Applicable([resp.data EXCEPT !.user_id = UserId]))
    => /\ ~resp.raised
       /\ activity_log # << >>
       /\ activity_log[Len(activity_log)].xp_grants = resp.data.custom_xp[1]

\* the sum of the positive values of a grant map
RECURSIVE PositiveSum(_, _)
PositiveSum(xp_grants, codes) ==
  IF codes = {} THEN 0
  ELSE LET c == CHOOSE d \in codes : TRUE
       IN (IF xp_grants[c] > 0 THEN xp_grants[c] ELSE 0)
          + PositiveSum(xp_grants, codes \ {c})

\* the same over the log entries of the character
RECURSIVE LogTotal(_)
LogTotal(log) ==
  IF log = << >> THEN 0
  ELSE (IF Head(log).character_id = CharId
        THEN PositiveSum(Head(log).xp_grants, DOMAIN Head(log).xp_grants)
        ELSE 0)
       + LogTotal(Tail(log))

\* C23: after any sequence of operations total_xp is the sum of the positive
\* values of the xp_grants snapshots of the character's log entries,
\* total_xp never decreases, and the entries written stay as they are.
C23_AuditTrail ==
  /\ character.total_xp = LogTotal(activity_log)
  /\ [][/\ character'.total_xp = LogTotal(activity_log')
        /\ character'.total_xp >= character.total_xp
        /\ Len(activity_log') >= Len(activity_log)
        /\ SubSeq(activity_log', 1, Len(activity_log)) = activity_log]_vars

\* two entries, one of them with a negative and a zero amount, and a
\* respec in between
C23_Witness ==
  /\ Len(activity_log) = 2
  /\ activity_log[1].xp_grants = [STR |-> -3, LCK |-> 0, WIS |-> 60]
  /\ activity_log[2].xp_grants = [STR |-> 150, INT |-> 40]
  /\ character.total_xp = 250
  /\ character.respec_tokens = 0

\* the XP side of the rows: total_xp, level and each attribute's stat_xp and
\* base_value
XpSide(db) ==
  << db.character.total_xp, db.character.level,
     [c \in DOMAIN db.stats |-> << db.stats[c].stat_xp,
                                   db.stats[c].base_value >>] >>

\* the tree side: each attribute's allocated_bonus and the allocation set
TreeSide(db) ==
  << [c \in DOMAIN db.stats |-> db.stats[c].allocated_bonus],
     db.character_nodes >>

\* C25: log_activity leaves every allocated_bonus, the allocation set and
\* respec_tokens as they are; Allocate and Respec leave total_xp, level and
\* every stat_xp and base_value as they are; Allocate leaves respec_tokens
\* as it is.
C25_FrameConditions ==
  [][/\ LogStep =>
          /\ TreeSide(DB') = TreeSide(DB)
          /\ character'.respec_tokens = character.respec_tokens
     /\ resp'.op \in {"allocate", "respec"} => XpSide(DB') = XpSide(DB)
     /\ resp'.op = "allocate" =>
          character'.respec_tokens = character.respec_tokens]_vars

\* XP was granted to an attribute that carries a bonus of an allocated node
C25_Witness ==
  /\ resp.op = "log_activity" /\ ~resp.raised
  /\ character_nodes # {}
  /\ stats["STR"].allocated_bonus > 0
  /\ stats["STR"].stat_xp = 300

\* the points paid for the allocated nodes
RECURSIVE PointsAllocated(_)
PointsAllocated(ids) ==
  IF ids = {} THEN 0
  ELSE LET i == CHOOSE j \in ids : TRUE
       IN PointsNeeded(NodeById(i)) + PointsAllocated(ids \ {i})

\* C26: starting from a newly created character, after any sequence of
\* log_activity, Allocate and Respec served one at a time, stat_points >= 0
\* and stat_points plus the points required by the allocated nodes is the
\* sum of the stat points of the levels 2..level.
C26_BudgetConservation ==
  /\ character.stat_points >= 0
  /\ character.stat_points + PointsAllocated(character_nodes)
       = SchedulePoints(2, character.level)

\* points of several levels earned in one grant, part of them spent on two
\* nodes, one of them the node whose required_points is not set
C26_Witness ==
  /\ character.level = 30
  /\ character_nodes = {2, 4}
  /\ character.stat_points = SchedulePoints(2, 30) - 3

\* C27: after any sequence of log_activity calls on a character created at
\* level 1 with 0 XP, level = level_from_xp(total_xp), level never decreases
\* and never exceeds 100, and a log_activity call grants stat points only
\* when it raises the level.
C27_LevelInvariant ==
  /\ character.level = 1 /\ character.total_xp = 0
  /\ [][/\ \A down \in BOOLEAN :
             character'.level = level_from_xp(character'.total_xp, down)
        /\ character'.level >= character.level
        /\ character'.level <= 100
        /\ (LogStep /\ character'.stat_points > character.stat_points)
             => character'.level > character.level]_vars

\* a grant that carries the character past the threshold of level 101
C27_Witness ==
  /\ resp.op = "log_activity" /\ ~resp.raised
  /\ character.total_xp >= xp_for_level(101)
  /\ character.level = 100
  /\ resp.new_level = << 100 >>

\* C28: can_allocate reports the first failure that applies, in the order
\* unknown node, unknown character, not enough stat points, already
\* allocated, unreachable: an allocated or unreachable node is reported as
\* "Not enough stat points" whenever stat_points are below what it requires.
C28_CheckOrder ==
  resp.op = "can_allocate" =>
    LET known == \E n \in StatNodeDB : n.is_active /\ n.code = resp.node_code
        exists == resp.character_id = CharId
        node == CHOOSE n \in StatNodeDB : n.is_active /\ n.code = resp.node_code
        short == character.stat_points < PointsNeeded(node)
        owned == node.id \in character_nodes
        far == node.id \notin ReachableFrom(character_nodes)
    IN /\ ~known => resp.reason = "Node not found"
       /\ (known /\ ~exists) => resp.reason = "Character not found"
       /\ (known /\ exists /\ short) => resp.reason = "Not enough stat points"
       /\ (known /\ exists /\ ~short /\ owned)
            => resp.reason = "Node already allocated"
       /\ (known /\ exists /\ ~short /\ ~owned /\ far)
            => resp.reason = "Node not reachable from current allocations"
       /\ resp.can_allocate <=> resp.reason = "OK"

\* an allocated node asked for again with fewer stat points than it requires
C28_Witness ==
  /\ resp.op = "can_allocate" /\ resp.character_id = CharId
  /\ KnownCode(resp.node_code)
  /\ NodeByCode(resp.node_code).id \in character_nodes
  /\ character.stat_points < PointsNeeded(NodeByCode(resp.node_code))
  /\ resp.reason = "Not enough stat points"

\* C29: respec_tokens is never negative and no operation raises it; each
\* successful respec takes exactly one; a character created with one token
\* completes one successful respec at most, every later respec failing
\* without a change.
C29_TokensOnlyConsumed ==
  /\ character.respec_tokens >= 0
  /\ [][/\ character'.respec_tokens >= 0
        /\ character'.respec_tokens <= character.respec_tokens
        /\ (resp'.op = "respec" /\ resp'.success)
             => /\ character'.respec_tokens = character.respec_tokens - 1
                /\ character.respec_tokens = 1
        /\ (resp'.op = "respec" /\ character.respec_tokens = 0)
             => /\ ~resp'.success
                /\ DB' = DB /\ activity_log' = activity_log]_vars

\* a respec refused after the token was used, with nodes allocated again
C29_Witness ==
  /\ resp.op = "respec" /\ resp.character_id = CharId /\ ~resp.success
  /\ character.respec_tokens = 0
  /\ character_nodes # {}

\* C30: after any sequence of log_activity calls total_xp is the sum of
\* stat_xp over the character's attribute rows.
C30_XpTotalsAgree ==
  character.total_xp =
    SumSeq([i \in 1..6 |-> stats[StatOrder[i]].stat_xp], 1)

====
